---------------------------- MODULE Spec2Model ----------------------------
(* A model of the multi-device barcode scanner manager (multi_scanner.py)  *)
(* and of its HTTP database module (database_integration_http.py).         *)
(*                                                                         *)
(* The specifications share the variables:                                 *)
(*   SpecSync   upload_scan_data threads, the local backlog file and the   *)
(*              sync pass against the remote store;                        *)
(*   SpecScan   the per-device scan workers, the two dedup tiers, the      *)
(*              daily cache file and a process restart;                    *)
(*   SpecPair   one device scanning one payload twice;                     *)
(*   SpecReconfig  the same with one port, and restarts of the program     *)
(*              under another configuration;                               *)
(*   SpecReconn the scan errors and the automatic reconnect sequence of    *)
(*              one device (SpecReconnFair: with the callbacks and threads *)
(*              running);                                                  *)
(*   SpecRegistry  the device registry and scanner_config.json;            *)
(*   SpecParse  _parse_barcode_status on one payload;                      *)
(*   SpecDay    the daily set and its cache files over several days;       *)
(*   SpecIngest the scan workers together with the upload threads they     *)
(*              start;                                                     *)
(*   SpecClose  force_disconnect_device step by step, with the scan        *)
(*              worker it joins;                                           *)
(*   SpecFrame  one scan worker reading and framing any short text;        *)
(*   SpecWorker the scan worker threads of a device under start, stop,     *)
(*              disconnect and connect (SpecStop, SpecStopFair: start and  *)
(*              stop only, the workers running);                           *)
(*   SpecOperator  SpecReconn with the operator's connect and disconnect;  *)
(*   SpecStatus one barcode scanned with two status prefixes over days.    *)
EXTENDS Integers, Sequences, FiniteSets, TLC

VARIABLES
    (* database_integration_http.py *)
    config,      \* DatabaseManagerHTTP.config and api_url, read at start-up
    remote,      \* the barcode_scans table: a sequence of rows, id = index
    backlog,     \* local_data/scans_<date>.jsonl: a sequence of entries
    up,          \* the upload_scan_data calls (one thread each)
    nUploads,    \* number of upload_scan_data calls made so far
    sync,        \* the sync pass (sync_local_data / _sync_jsonl_file)
    nSync,       \* number of sync passes started so far
    posts,       \* history: POST /barcode_scans issued, per barcode value
    (* multi_scanner.py: scanning and dedup *)
    now,                 \* time.time(), in seconds
    recent_scans,        \* ScannerDevice.recent_scans, per device
    scan_count,          \* ScannerDevice.scan_count, per device
    total_scan_count,    \* MultiScannerApp.total_scan_count
    today_scanned_data,  \* MultiScannerApp.today_scanned_data
    cacheFile,           \* the file today_scans_<date>.json
    worker,              \* each device's scan worker inside process_scanned_data
    nScans,              \* number of lines handed to process_scanned_data so far
    nRestarts,           \* number of process restarts so far
    lastScan,            \* history: the latest scan of each device
    lastPass,            \* history: when a payload last passed the window check
    passed,              \* history: scans of a device that passed the window check
    accepted,            \* history: payloads whose New processing completed
    (* multi_scanner.py: connection and automatic reconnect of one device *)
    device,      \* the ScannerDevice fields of the connection
    reconn,      \* the auto_reconnect_device thread of the device
    nErrors,     \* number of scan errors so far
    reopens,     \* history: automatic reopen attempts since the last fatal error
    callback,    \* the callback scan_worker scheduled with root.after (line 893)
    (* multi_scanner.py: the device registry *)
    devices,         \* MultiScannerApp.devices: device_id -> port
    next_device_id,  \* MultiScannerApp.next_device_id
    configFile,      \* 'ports' of scanner_config.json, or no file
    lastOp,          \* history: the latest registry operation and its outcome
    (* database_integration_http.py: the parse of one payload *)
    payload,     \* the barcode_data handed to upload_scan_data
    parse_result,  \* the result of _parse_barcode_status, once computed
    lookup_key,  \* the value handed to _get_existing_record, once computed
    (* multi_scanner.py: the daily cache over several days *)
    current_date,      \* the local date, as a day number
    today_cache_file,  \* the day in the name MultiScannerApp.today_cache_file
    cacheFiles,        \* the files today_scans_<day>.json: day -> content
    dayScan,           \* history: the latest scan and its verdict
    scannedOn,         \* history: the pairs <<payload, day>> scanned so far
    (* multi_scanner.py: the upload threads started by the scan workers *)
    uploadThreads,     \* the upload_worker threads, in the order started
    (* multi_scanner.py: one call of force_disconnect_device, step by step *)
    closing,     \* the position of the call, its wait, and its history
    nCloses,     \* number of calls completed so far
    (* multi_scanner.py: the scan worker threads of one device *)
    wire,        \* the characters the scanner sends, and how many were read
    scanThreads, \* the scan_worker threads started, in the order started
    framed,      \* history: the lines handed to process_scanned_data
    (* multi_scanner.py: the operator's commands to the device *)
    operatorOff  \* history: disconnected by the operator, not connected since

syncVars == <<config, remote, backlog, up, nUploads, sync, nSync, posts>>

scanVars == <<recent_scans, scan_count, total_scan_count, today_scanned_data,
              cacheFile, worker, nScans, nRestarts, lastScan, lastPass, passed,
              accepted>>

reconnVars == <<device, reconn, nErrors, reopens, callback>>

regVars == <<devices, next_device_id, configFile, lastOp>>

parseVars == <<payload, parse_result, lookup_key>>

dayVars == <<current_date, today_cache_file, cacheFiles, dayScan, scannedOn>>

ingestVars == <<uploadThreads>>

closeVars == <<closing, nCloses>>

frameVars == <<wire, scanThreads, framed>>

opVars == <<operatorOff>>

otherVars == <<dayVars, ingestVars, closeVars, frameVars>>

(* scanVars without today_scanned_data.                                   *)
scanRest == <<recent_scans, scan_count, total_scan_count, cacheFile, worker,
              nScans, nRestarts, lastScan, lastPass, passed, accepted>>

nonSyncVars == <<now, scanVars, reconnVars, regVars, parseVars, otherVars, opVars>>

nonScanVars == <<syncVars, reconnVars, regVars, parseVars, otherVars, opVars>>

nonReconnVars == <<syncVars, scanVars, regVars, parseVars, otherVars, opVars>>

nonRegVars == <<syncVars, now, scanVars, reconnVars, parseVars, otherVars, opVars>>

nonParseVars == <<syncVars, now, scanVars, reconnVars, regVars, otherVars, opVars>>

nonDayVars == <<syncVars, now, scanRest, reconnVars, regVars, parseVars,
                ingestVars, closeVars, frameVars, opVars>>

nonIngestVars == <<syncVars, reconnVars, regVars, parseVars, dayVars,
                   closeVars, frameVars, opVars>>

(* All but the device and the call of force_disconnect_device.            *)
nonCloseVars == <<syncVars, now, scanVars, reconn, nErrors, reopens, callback,
                  regVars, parseVars, dayVars, ingestVars, frameVars, opVars>>

vars == <<syncVars, now, scanVars, reconnVars, regVars, parseVars, otherVars,
          opVars>>

--------------------------------------------------------------------------
(* Bounds of the model. *)
MaxUploads == 2
MaxSyncs == 2
MaxTime == 6
MaxScans == 3
MaxRestarts == 1
MaxErrors == 2
MaxReconnTime == 20
MaxPairTime == 10
MaxDeviceId == 3
MaxLen == 3
MaxDays == 3
MaxCloses == 2

--------------------------------------------------------------------------
(* Payloads are sequences of characters, so that the status prefix is     *)
(* really parsed, stripped and rebuilt.                                   *)
LOT55 == <<"L", "O", "T", "-", "5", "5">>
LOT99 == <<"L", "O", "T", "-", "9", "9">>

Prefixed(d, b) == <<d, "@">> \o b

Payloads == {Prefixed("1", LOT55), Prefixed("2", LOT55),
             Prefixed("4", LOT55), LOT99}

Ports == {"COM3", "COM4"}

NoStatus == "None"

StartsWith(s, p) == Len(s) >= Len(p) /\ SubSeq(s, 1, Len(p)) = p

(* The copy of the parser in test_status_parsing.py, which knows the       *)
(* prefixes 1@, 2@ and 3@ only.                                           *)
parse_barcode_status(barcode_data) ==
    IF StartsWith(barcode_data, <<"1", "@">>)
    THEN <<SubSeq(barcode_data, 3, Len(barcode_data)), "cut">>
    ELSE IF StartsWith(barcode_data, <<"2", "@">>)
    THEN <<SubSeq(barcode_data, 3, Len(barcode_data)), "cleaned">>
    ELSE IF StartsWith(barcode_data, <<"3", "@">>)
    THEN <<SubSeq(barcode_data, 3, Len(barcode_data)), "stored">>
    ELSE <<barcode_data, NoStatus>>

(* _parse_barcode_status: <<clean_barcode_data, status>>.  The labels      *)
(* stand for the source's strings, in the order of the spec's mapping.    *)
_parse_barcode_status(barcode_data) ==
    IF StartsWith(barcode_data, <<"0", "@">>)
    THEN <<SubSeq(barcode_data, 3, Len(barcode_data)), "scheduled">>
    ELSE IF StartsWith(barcode_data, <<"1", "@">>)
    THEN <<SubSeq(barcode_data, 3, Len(barcode_data)), "cut">>
    ELSE IF StartsWith(barcode_data, <<"2", "@">>)
    THEN <<SubSeq(barcode_data, 3, Len(barcode_data)), "cleaned">>
    ELSE IF StartsWith(barcode_data, <<"3", "@">>)
    THEN <<SubSeq(barcode_data, 3, Len(barcode_data)), "stored">>
    ELSE IF StartsWith(barcode_data, <<"4", "@">>)
    THEN <<SubSeq(barcode_data, 3, Len(barcode_data)), "partial_out">>
    ELSE IF StartsWith(barcode_data, <<"5", "@">>)
    THEN <<SubSeq(barcode_data, 3, Len(barcode_data)), "shipped">>
    ELSE <<barcode_data, NoStatus>>

Barcodes == {_parse_barcode_status(p)[1] : p \in Payloads}

(* A variant that numbers the status pair by the status code itself.      *)
status_mapping_by_code(status) ==
    CASE status = "scheduled"   -> <<"status_0_scheduled", "status_0_time">>
      [] status = "cut"         -> <<"status_1_cut", "status_1_time">>
      [] status = "cleaned"     -> <<"status_2_cleaned", "status_2_time">>
      [] status = "stored"      -> <<"status_3_stored", "status_3_time">>
      [] status = "partial_out" -> <<"status_4_partial_out", "status_4_time">>
      [] status = "shipped"     -> <<"status_5_shipped", "status_5_time">>

(* status_mapping of _create_new_record and _update_existing_record: the  *)
(* (status_field, time_field) pair of a status label.                     *)
status_mapping(status) ==
    CASE status = "scheduled"   -> <<"status_1_scheduled", "status_1_time">>
      [] status = "cut"         -> <<"status_2_cut", "status_2_time">>
      [] status = "cleaned"     -> <<"status_3_cleaned", "status_3_time">>
      [] status = "stored"      -> <<"status_4_stored", "status_4_time">>
      [] status = "partial_out" -> <<"status_5_partial_out", "status_5_time">>
      [] status = "shipped"     -> <<"status_6_shipped", "status_6_time">>

StatusLabels == {"scheduled", "cut", "cleaned", "stored", "partial_out", "shipped"}

(* The status columns a request body sets (True, current_time). *)
StatusFields(status) ==
    IF status \in StatusLabels
    THEN {status_mapping(status)[1], status_mapping(status)[2]}
    ELSE {}

(* _get_status_prefix: prefix_mapping.get(status, ''). *)
_get_status_prefix(status) ==
    CASE status = "scheduled"   -> <<"0">>
      [] status = "cut"         -> <<"1">>
      [] status = "cleaned"     -> <<"2">>
      [] status = "stored"      -> <<"3">>
      [] status = "partial_out" -> <<"4">>
      [] status = "shipped"     -> <<"5">>
      [] OTHER                  -> <<>>

(* f"{self._get_status_prefix(status)}@{barcode_data}" *)
LocalPayload(status, barcode_data) ==
    _get_status_prefix(status) \o <<"@">> \o barcode_data

--------------------------------------------------------------------------
(* The remote store.  A row is [barcode_data, device_port, fields]: fields *)
(* is the set of further columns a request has set.  A request is          *)
(* answered with success or not by the environment.                        *)
NoRecord == 0

Row(barcode_data, device_port, fields) ==
    [barcode_data |-> barcode_data, device_port |-> device_port, fields |-> fields]

MatchingIds(barcode_data) ==
    {i \in DOMAIN remote : remote[i].barcode_data = barcode_data}

Min(S) == CHOOSE x \in S : \A y \in S : x <= y

(* A variant of the lookup that never finds a record.                      *)
FirstMatchNone(barcode_data) == NoRecord

(* GET /barcode_scans?barcode_data=eq.<value>: records[0] if records.      *)
FirstMatch(barcode_data) ==
    IF MatchingIds(barcode_data) = {} THEN NoRecord
    ELSE Min(MatchingIds(barcode_data))

Request(kind, target, body, ok) ==
    [kind |-> kind, target |-> target, body |-> body, ok |-> ok]

--------------------------------------------------------------------------
(* upload_scan_data, one call per thread (upload_worker).                 *)
Calls == 1..MaxUploads

NoCall ==
    [pc |-> "unborn", barcode_data |-> <<>>, device_port |-> "",
     clean |-> <<>>, status |-> NoStatus, existing |-> NoRecord,
     result |-> FALSE, reqs |-> <<>>, savedLocal |-> FALSE, after |-> {},
     code |-> "none"]

DoneCalls == {c \in Calls : up[c].pc = "done"}

DatabaseAvailable == config.api_url /\ config.database_enabled

(* Lines 109-123: the configuration test and the parse of the payload.    *)
UploadBegin(c, barcode_data, device_port) ==
    /\ c = nUploads + 1
    /\ c <= MaxUploads
    /\ nUploads' = c
    /\ LET parsed == _parse_barcode_status(barcode_data)
           call == [NoCall EXCEPT !.barcode_data = barcode_data,
                                  !.device_port = device_port,
                                  !.after = DoneCalls]
       IN up' = [up EXCEPT ![c] =
            IF ~DatabaseAvailable
            THEN IF config.local_backup_enabled
                 THEN [call EXCEPT !.pc = "save_offline"]
                 ELSE [call EXCEPT !.pc = "done", !.result = FALSE]
            ELSE IF parsed[2] = NoStatus
                 THEN [call EXCEPT !.pc = "done", !.result = FALSE]
                 ELSE [call EXCEPT !.pc = "get", !.clean = parsed[1],
                                   !.status = parsed[2]]]
    /\ UNCHANGED <<config, remote, backlog, sync, nSync, posts>>
    /\ UNCHANGED nonSyncVars

(* _get_existing_record: any failure is logged and answered None.         *)
GetExisting(c, ok) ==
    /\ up[c].pc = "get"
    /\ LET found == IF ok THEN FirstMatch(up[c].clean) ELSE NoRecord
       IN up' = [up EXCEPT ![c].existing = found,
                           ![c].pc = IF found # NoRecord THEN "patch" ELSE "post",
                           ![c].reqs = Append(@, Request("GET", NoRecord,
                                                         up[c].clean, ok))]
    /\ UNCHANGED <<config, remote, backlog, nUploads, sync, nSync, posts>>
    /\ UNCHANGED nonSyncVars

(* Where a call goes after a success answer: lines 199-204, 240-245,      *)
(* 291-296 save to the local backup (if enabled) and return True.         *)
AfterSuccess == IF config.local_backup_enabled THEN "save" ELSE "done"

(* A variant of the update that sends every status pair again.            *)
UpdateBodyAllPairs(c) ==
    [device_port |-> up[c].device_port,
     fields |-> UNION {StatusFields(l) : l \in StatusLabels}]

(* _update_existing_record: PATCH /barcode_scans?id=eq.<id>.              *)
UpdateBody(c) ==
    [device_port |-> up[c].device_port, fields |-> StatusFields(up[c].status)]

UpdateExisting(c, ok) ==
    /\ up[c].pc = "patch"
    /\ LET id == up[c].existing
           body == UpdateBody(c)
       IN /\ remote' = IF ok
                       THEN [remote EXCEPT ![id].device_port = body.device_port,
                                           ![id].fields = @ \cup body.fields]
                       ELSE remote
          /\ up' = [up EXCEPT ![c].pc = IF ok THEN AfterSuccess ELSE "done",
                              ![c].result = ok,
                              ![c].reqs = Append(@, Request("PATCH", id, body, ok))]
    /\ UNCHANGED <<config, backlog, nUploads, sync, nSync, posts>>
    /\ UNCHANGED nonSyncVars

(* _create_new_record: POST /barcode_scans with the status pair.          *)
CreateBody(c) ==
    Row(up[c].clean, up[c].device_port, StatusFields(up[c].status))

CreateNew(c, answer) ==
    /\ up[c].pc = "post"
    /\ answer \in {"201", "400", "fail"}
    /\ remote' = IF answer = "201" THEN Append(remote, CreateBody(c)) ELSE remote
    /\ posts' = [posts EXCEPT ![up[c].clean] = @ + 1]
    /\ up' = [up EXCEPT ![c].pc = CASE answer = "201" -> AfterSuccess
                                    [] answer = "400" -> "basic"
                                    [] OTHER -> "done",
                        ![c].result = (answer = "201"),
                        ![c].code = answer,
                        ![c].reqs = Append(@, Request("POST", NoRecord,
                                                      CreateBody(c), answer = "201"))]
    /\ UNCHANGED <<config, backlog, nUploads, sync, nSync>>
    /\ UNCHANGED nonSyncVars

(* A variant of the retry that sends the status pair again.               *)
BasicBodyWithStatus(c) == CreateBody(c)

(* _create_basic_record: the retry after HTTP 400, base fields only.      *)
BasicBody(c) == Row(up[c].clean, up[c].device_port, {})

CreateBasic(c, ok) ==
    /\ up[c].pc = "basic"
    /\ remote' = IF ok THEN Append(remote, BasicBody(c)) ELSE remote
    /\ posts' = [posts EXCEPT ![up[c].clean] = @ + 1]
    /\ up' = [up EXCEPT ![c].pc = IF ok THEN AfterSuccess ELSE "done",
                        ![c].result = ok,
                        ![c].reqs = Append(@, Request("POST", NoRecord,
                                                      BasicBody(c), ok))]
    /\ UNCHANGED <<config, backlog, nUploads, sync, nSync>>
    /\ UNCHANGED nonSyncVars

(* _save_to_local: parse again and append one line to the date file.      *)
LocalEntry(barcode_data, device_port) ==
    [barcode_data |-> _parse_barcode_status(barcode_data)[1],
     device_port |-> device_port,
     status |-> _parse_barcode_status(barcode_data)[2],
     synced |-> FALSE]

_save_to_local(barcode_data, device_port) ==
    Append(backlog, LocalEntry(barcode_data, device_port))

(* The save after a confirmed create or update: the payload is rebuilt    *)
(* from the status prefix and the clean barcode.                          *)
SaveAfterUpload(c) ==
    /\ up[c].pc = "save"
    /\ backlog' = _save_to_local(LocalPayload(up[c].status, up[c].clean),
                                 up[c].device_port)
    /\ up' = [up EXCEPT ![c].pc = "done", ![c].result = TRUE,
                        ![c].savedLocal = TRUE]
    /\ UNCHANGED <<config, remote, nUploads, sync, nSync, posts>>
    /\ UNCHANGED nonSyncVars

(* Line 112: the database is not available, the raw payload is saved.     *)
SaveOffline(c) ==
    /\ up[c].pc = "save_offline"
    /\ backlog' = _save_to_local(up[c].barcode_data, up[c].device_port)
    /\ up' = [up EXCEPT ![c].pc = "done", ![c].result = TRUE,
                        ![c].savedLocal = TRUE]
    /\ UNCHANGED <<config, remote, nUploads, sync, nSync, posts>>
    /\ UNCHANGED nonSyncVars

--------------------------------------------------------------------------
(* sync_local_data / _sync_jsonl_file: the pass over the date file.       *)
(* answers, left and again are history: the answer to each entry's        *)
(* request in this pass, the file as the previous pass left it, and       *)
(* whether this pass read the file exactly as the previous pass left it.  *)
SyncIdle == [pc |-> "idle", lines |-> <<>>, i |-> 1, unsynced_lines |-> <<>>,
             uploaded_count |-> 0, answers |-> <<>>, left |-> <<>>,
             again |-> FALSE]

(* Lines 425-452: the guards of sync_local_data and f.readlines().        *)
SyncRead ==
    /\ sync.pc = "idle"
    /\ nSync < MaxSyncs
    /\ DatabaseAvailable
    /\ config.auto_sync_enabled
    /\ nSync' = nSync + 1
    /\ sync' = [SyncIdle EXCEPT !.pc = "loop", !.lines = backlog,
                                !.left = sync.left,
                                !.again = nSync > 0 /\ backlog = sync.left]
    /\ UNCHANGED <<config, remote, backlog, up, nUploads, posts>>
    /\ UNCHANGED nonSyncVars

(* The body POSTed for a backlog entry (lines 461-466).                   *)
SyncBody(record) ==
    Row(record.barcode_data, record.device_port, {"scan_time", "status"})

(* A variant that uploads every entry, synced or not.                     *)
NeedsUploadAlways(record) == TRUE

(* Line 459: the entry is not marked synced.                              *)
NeedsUpload(record) == ~record.synced

(* A variant that marks the entry synced whatever the answer.             *)
AnsweredSynced(record, ok) == [record EXCEPT !.synced = TRUE]

(* Lines 475-476: record['synced'] = True on a 200/201 answer only.       *)
Answered(record, ok) == [record EXCEPT !.synced = ok]

(* Lines 456-484, one iteration: an unsynced entry is POSTed; a success   *)
(* answer marks it synced; every entry is kept for the rewrite.           *)
SyncEntry(ok) ==
    /\ sync.pc = "loop"
    /\ sync.i <= Len(sync.lines)
    /\ LET record == sync.lines[sync.i]
       IN IF NeedsUpload(record)
          THEN /\ remote' = IF ok THEN Append(remote, SyncBody(record)) ELSE remote
               /\ posts' = [posts EXCEPT ![record.barcode_data] = @ + 1]
               /\ sync' = [sync EXCEPT
                     !.i = @ + 1,
                     !.uploaded_count = IF ok THEN @ + 1 ELSE @,
                     !.unsynced_lines = Append(@, Answered(record, ok)),
                     !.answers =
                         Append(@, IF ok THEN "success" ELSE "failure")]
          ELSE /\ ok
               /\ sync' = [sync EXCEPT !.i = @ + 1,
                                       !.unsynced_lines = Append(@, record),
                                       !.answers = Append(@, "none")]
               /\ UNCHANGED <<remote, posts>>
    /\ UNCHANGED <<config, backlog, up, nUploads, nSync>>
    /\ UNCHANGED nonSyncVars

(* Lines 486-489: the file is rewritten only if something was uploaded.   *)
SyncWrite ==
    /\ sync.pc = "loop"
    /\ sync.i > Len(sync.lines)
    /\ backlog' = IF sync.uploaded_count > 0 THEN sync.unsynced_lines ELSE backlog
    /\ sync' = [sync EXCEPT !.pc = "idle", !.left = backlog']
    /\ UNCHANGED <<config, remote, up, nUploads, nSync, posts>>
    /\ UNCHANGED nonSyncVars

--------------------------------------------------------------------------
(* The scanning side at rest: the state of MultiScannerApp.__init__ with  *)
(* two registered devices and no cache file.                              *)
Devices == {1, 2}

NoTime == -1

WorkerIdle == [pc |-> "idle", data |-> <<>>, tmp |-> 0, dump |-> {}]

NoScan == [data |-> <<>>, inWindow |-> FALSE, inDaily |-> FALSE,
           verdict |-> "none", uploaded |-> FALSE]

NoFile == [state |-> "absent", data |-> {}]

ScanPayloads == {LOT99, Prefixed("2", LOT55)}

(* ScannerDevice.__init__ (lines 51-64) and no reconnect thread.          *)
max_reconnect_attempts == 3

NewDevice == [is_connected |-> FALSE, is_scanning |-> FALSE,
              serial_connection |-> "None", scan_thread |-> "None",
              reconnect_attempts |-> 0, last_error_time |-> NoTime]

NoThread == [pc |-> "none", wake |-> 0]

NoCallback == [pc |-> "none", kind |-> "none"]

ScanQuiet ==
    /\ recent_scans = [d \in Devices |-> [p \in ScanPayloads |-> NoTime]]
    /\ scan_count = [d \in Devices |-> 0]
    /\ total_scan_count = 0
    /\ today_scanned_data = {}
    /\ cacheFile = NoFile
    /\ worker = [d \in Devices |-> WorkerIdle]
    /\ nScans = 0
    /\ nRestarts = 0
    /\ lastScan = [d \in Devices |-> NoScan]
    /\ lastPass = [d \in Devices |-> [p \in ScanPayloads |-> NoTime]]
    /\ passed = [d \in Devices |-> 0]
    /\ accepted = {}

ReconnQuiet ==
    /\ device = NewDevice
    /\ reconn = NoThread
    /\ nErrors = 0
    /\ reopens = 0
    /\ callback = NoCallback

(* MultiScannerApp.__init__, lines 143-144: no device registered, and no   *)
(* scanner_config.json.                                                   *)
NoConfigFile == <<"no file">>

NoOp == [op |-> "none", port |-> "", done |-> FALSE]

RegQuiet ==
    /\ devices = <<>>
    /\ next_device_id = 1
    /\ configFile = NoConfigFile
    /\ lastOp = NoOp

(* No payload is being parsed.                                            *)
NotYet == <<"not yet">>

ParseQuiet ==
    /\ payload = <<>>
    /\ parse_result = NotYet
    /\ lookup_key = NotYet

(* MultiScannerApp.__init__, lines 151-152, on day 1 with no cache file.   *)
Days == 1..MaxDays

NoDayScan == [data |-> <<>>, date |-> 0, verdict |-> "none", firstToday |-> FALSE]

DayQuiet ==
    /\ current_date = 1
    /\ today_cache_file = 1
    /\ cacheFiles = [d \in Days |-> NoFile]
    /\ dayScan = NoDayScan
    /\ scannedOn = {}

(* No upload thread has been started.                                     *)
IngestQuiet == uploadThreads = <<>>

(* No call of force_disconnect_device has been made.                      *)
NoClose == [pc |-> "idle", waited |-> 0, log |-> <<>>, start |-> NewDevice]

CloseQuiet == closing = NoClose /\ nCloses = 0

(* No scanner is sending and no scan worker has been started.             *)
NoWire == [stream |-> <<>>, read |-> 0]

FrameQuiet == wire = NoWire /\ scanThreads = <<>> /\ framed = <<>>

(* The operator has given no command.                                     *)
OpQuiet == operatorOff = FALSE

OtherQuiet == DayQuiet /\ IngestQuiet /\ CloseQuiet /\ FrameQuiet /\ OpQuiet

Configs == [api_url : BOOLEAN, database_enabled : BOOLEAN,
            local_backup_enabled : BOOLEAN, auto_sync_enabled : BOOLEAN]

SyncInit ==
    /\ now = 0
    /\ ScanQuiet
    /\ ReconnQuiet
    /\ RegQuiet
    /\ ParseQuiet
    /\ OtherQuiet
    /\ config \in Configs
    /\ remote = <<>>
    /\ backlog = <<>>
    /\ up = [c \in Calls |-> NoCall]
    /\ nUploads = 0
    /\ sync = SyncIdle
    /\ nSync = 0
    /\ posts = [b \in Barcodes |-> 0]

SyncNext ==
    \/ \E c \in Calls, p \in Payloads, port \in Ports : UploadBegin(c, p, port)
    \/ \E c \in Calls, ok \in BOOLEAN : GetExisting(c, ok)
    \/ \E c \in Calls, ok \in BOOLEAN : UpdateExisting(c, ok)
    \/ \E c \in Calls, answer \in {"201", "400", "fail"} : CreateNew(c, answer)
    \/ \E c \in Calls, ok \in BOOLEAN : CreateBasic(c, ok)
    \/ \E c \in Calls : SaveAfterUpload(c)
    \/ \E c \in Calls : SaveOffline(c)
    \/ SyncRead
    \/ \E ok \in BOOLEAN : SyncEntry(ok)
    \/ SyncWrite

SpecSync == SyncInit /\ [][SyncNext]_vars

--------------------------------------------------------------------------
(* Claims about the upload path and the backlog (SpecSync).               *)

HasUnsyncedEntry(barcode_data, device_port, status) ==
    \E i \in DOMAIN backlog :
        backlog[i] = [barcode_data |-> barcode_data, device_port |-> device_port,
                      status |-> status, synced |-> FALSE]

RemoteFailed(c) ==
    /\ up[c].pc = "done"
    /\ up[c].reqs # <<>>
    /\ ~up[c].result

(* C1: every upload that failed at the remote (database configured, local *)
(* backup enabled) has left an entry with synced = false in the backlog.  *)
C1_FailedUploadInBacklog ==
    \A c \in Calls :
        (DatabaseAvailable /\ config.local_backup_enabled /\ RemoteFailed(c))
            => HasUnsyncedEntry(up[c].clean, up[c].device_port, up[c].status)

(* C2: whenever a remote request has been issued for a scan, the scan's   *)
(* local record has been appended: the append does not wait for, or       *)
(* depend on, the remote answer.                                          *)
C2_LocalBeforeRemote ==
    \A c \in Calls :
        (config.local_backup_enabled /\ up[c].reqs # <<>>) => up[c].savedLocal

(* The remote confirmed the create or update of call c.                   *)
RemoteConfirmed(c) ==
    /\ up[c].pc = "done"
    /\ up[c].result
    /\ up[c].reqs # <<>>
    /\ up[c].reqs[Len(up[c].reqs)].ok

(* C38: after an upload that the remote confirmed, the backlog holds no   *)
(* entry of that event with synced = false.                               *)
C38_ConfirmedNotPending ==
    \A c \in Calls :
        RemoteConfirmed(c) =>
            ~HasUnsyncedEntry(up[c].clean, up[c].device_port, up[c].status)

(* C3: at most one create (POST /barcode_scans) is ever issued per        *)
(* barcode value, over all uploads and sync passes.                       *)
C3_OneCreatePerBarcode ==
    \A b \in Barcodes : posts[b] <= 1

(* The scenario of C4: two calls with the payload 1@b, the second started *)
(* after the first returned, every request answered with success, the     *)
(* first lookup finding no record, and nothing else writing b.            *)
AllOk(c) == \A k \in DOMAIN up[c].reqs : up[c].reqs[k].ok

OnlyWriters(b, cs) ==
    /\ nSync = 0
    /\ \A c \in Calls \ cs : up[c].clean # b

C4_Scenario(c1, c2) ==
    /\ c1 # c2
    /\ up[c1].pc = "done" /\ up[c2].pc = "done"
    /\ up[c1].barcode_data = Prefixed("1", LOT55)
    /\ up[c2].barcode_data = Prefixed("1", LOT55)
    /\ c1 \in up[c2].after
    /\ DatabaseAvailable
    /\ up[c1].existing = NoRecord
    /\ AllOk(c1) /\ AllOk(c2)
    /\ OnlyWriters(LOT55, {c1, c2})

(* C4: upload_scan_data is idempotent on the barcode: after the two calls *)
(* there is exactly one record for b, its cut pair is set, and the second *)
(* call issued a PATCH on the record the first created, and no POST.      *)
C4_UploadIdempotent ==
    \A c1, c2 \in Calls :
        C4_Scenario(c1, c2) =>
            /\ Cardinality(MatchingIds(LOT55)) = 1
            /\ \A id \in MatchingIds(LOT55) :
                  /\ {"status_2_cut", "status_2_time"} \subseteq remote[id].fields
                  /\ Len(up[c2].reqs) = 2
                  /\ up[c2].reqs[2].kind = "PATCH"
                  /\ up[c2].reqs[2].target = id
            /\ \A k \in DOMAIN up[c2].reqs : up[c2].reqs[k].kind # "POST"

C4_Witness == \E c1, c2 \in Calls : C4_Scenario(c1, c2)

(* C9: an entry appended to the date file while a sync pass is between    *)
(* reading and rewriting it is still in the file after the rewrite.       *)
C9_AppendSurvivesSync ==
    [][(sync.pc = "loop" /\ sync'.pc = "idle") =>
          \A k \in (Len(sync.lines) + 1)..Len(backlog) :
              \E j \in DOMAIN backlog' : backlog'[j] = backlog[k]]_vars

(* The scenario of C10: the payload 2@LOT-55 from COM3, the lookup        *)
(* answered with no record, the create answered with success.             *)
C10_Scenario(c) ==
    /\ up[c].barcode_data = Prefixed("2", LOT55)
    /\ up[c].device_port = "COM3"
    /\ Len(up[c].reqs) >= 2
    /\ up[c].reqs[1].kind = "GET" /\ up[c].reqs[1].ok
    /\ up[c].existing = NoRecord
    /\ up[c].reqs[2].ok

C10_Creates(c, fields) ==
    /\ up[c].reqs[2].kind = "POST"
    /\ up[c].reqs[2].body = Row(LOT55, "COM3", fields)
    /\ \E id \in MatchingIds(LOT55) : fields \subseteq remote[id].fields
    /\ OnlyWriters(LOT55, {c}) =>
          /\ Cardinality(MatchingIds(LOT55)) = 1
          /\ \A id \in MatchingIds(LOT55) : remote[id] = Row(LOT55, "COM3", fields)

(* C10, as stated: the record created for 2@LOT-55 from COM3 is keyed     *)
(* LOT-55, carries device_port COM3 and has status_2_cleaned set with a   *)
(* time.                                                                  *)
C10_AsStated ==
    \A c \in Calls :
        C10_Scenario(c) => C10_Creates(c, {"status_2_cleaned", "status_2_time"})

(* C10, amended: the record created for 2@LOT-55 from COM3 is keyed       *)
(* LOT-55, carries device_port COM3 and has status_3_cleaned and          *)
(* status_3_time set (status code d sets the pair numbered d + 1).        *)
C10_CreatesCleanedRecord ==
    \A c \in Calls :
        C10_Scenario(c) => C10_Creates(c, {"status_3_cleaned", "status_3_time"})

C10_Witness ==
    \E c \in Calls : C10_Scenario(c) /\ OnlyWriters(LOT55, {c}) /\ up[c].pc = "done"

(* The status pair of each prefixed payload of the model, as the claims   *)
(* name it.                                                               *)
PairOfPayload(p) ==
    CASE p = Prefixed("1", LOT55) -> {"status_2_cut", "status_2_time"}
      [] p = Prefixed("2", LOT55) -> {"status_3_cleaned", "status_3_time"}
      [] p = Prefixed("4", LOT55) -> {"status_5_partial_out", "status_5_time"}
      [] OTHER -> {}

LastRequest(call) == call.reqs[Len(call.reqs)]

(* C11: an update is a PATCH on the record found for the barcode, its     *)
(* body holds device_port and the one status pair of the scanned code,    *)
(* and the step changes nothing else: the other rows, and the other       *)
(* columns of the record, are as before.                                  *)
C11_PatchOnlyMatchingPair ==
    [][\A c \in Calls :
          (up[c].pc = "patch" /\ up'[c].pc # "patch") =>
              LET id == up[c].existing
                  req == LastRequest(up'[c])
                  pair == PairOfPayload(up[c].barcode_data)
              IN /\ req.kind = "PATCH"
                 /\ req.target = id
                 /\ remote[id].barcode_data = up[c].clean
                 /\ req.body = [device_port |-> up[c].device_port, fields |-> pair]
                 /\ Len(remote') = Len(remote)
                 /\ \A i \in DOMAIN remote : i # id => remote'[i] = remote[i]
                 /\ remote'[id].barcode_data = remote[id].barcode_data
                 /\ remote'[id].fields \ pair = remote[id].fields \ pair
                 /\ req.ok => /\ pair \subseteq remote'[id].fields
                              /\ remote'[id].device_port = up[c].device_port]_vars

(* 4@LOT-55 after 2@LOT-55: the record holds the cleaned pair and the     *)
(* partial_out pair.                                                      *)
C11_Witness ==
    \E c \in Calls :
        /\ up[c].barcode_data = Prefixed("4", LOT55)
        /\ up[c].pc = "done"
        /\ up[c].existing # NoRecord
        /\ LastRequest(up[c]).kind = "PATCH"
        /\ LastRequest(up[c]).ok
        /\ remote[up[c].existing].fields =
              {"status_3_cleaned", "status_3_time",
               "status_5_partial_out", "status_5_time"}

(* The steps of a pass: one iteration of the loop, and the rewrite.       *)
EntryStep == sync.pc = "loop" /\ sync'.pc = "loop" /\ sync'.i = sync.i + 1

WriteStep == sync.pc = "loop" /\ sync'.pc = "idle"

(* C17: an entry of the file goes from synced = false to synced = true    *)
(* only at the rewrite of a pass whose request for that entry was         *)
(* answered with success, and that request added the entry to the remote; *)
(* an entry whose request failed is in the file, unchanged and unsynced,  *)
(* after the rewrite, and every pass sends a request for every unsynced   *)
(* entry it reads.                                                        *)
C17_SyncedOnlyOnSuccess ==
    [][/\ \A k \in DOMAIN backlog :
             (k \in DOMAIN backlog' /\ ~backlog[k].synced /\ backlog'[k].synced)
                 => /\ WriteStep
                    /\ k <= Len(sync.answers)
                    /\ sync.answers[k] = "success"
                    /\ backlog'[k] = [backlog[k] EXCEPT !.synced = TRUE]
       /\ WriteStep =>
             \A k \in DOMAIN sync.answers :
                 sync.answers[k] = "failure"
                     => /\ k \in DOMAIN backlog'
                        /\ backlog'[k] = sync.lines[k]
                        /\ ~backlog'[k].synced
       /\ EntryStep =>
             LET record == sync.lines[sync.i]
             IN  /\ ~record.synced =>
                       /\ posts'[record.barcode_data] =
                              posts[record.barcode_data] + 1
                       /\ sync'.answers[sync.i] \in {"success", "failure"}
                 /\ sync'.answers[sync.i] = "success" =>
                       remote' = Append(remote, SyncBody(record))
                 /\ sync'.answers[sync.i] # "success" => remote' = remote]_vars

(* An entry failed in the first pass and was sent again, with success, in *)
(* the second.                                                            *)
C17_Witness ==
    /\ nSync = 2
    /\ sync.pc = "idle"
    /\ Len(backlog) = 1
    /\ backlog[1].synced
    /\ posts[backlog[1].barcode_data] = 2
    /\ sync.answers = <<"success">>

(* C18 as stated: a pass that reads the file as the previous pass left it *)
(* leaves the entries it read as they were, sends requests for unsynced   *)
(* entries only, and adds nothing to the remote.                          *)
C18_AsStated ==
    [][sync.again =>
          /\ EntryStep =>
                /\ posts' # posts => ~sync.lines[sync.i].synced
                /\ remote' = remote
          /\ WriteStep =>
                SubSeq(backlog', 1, Len(sync.lines)) = sync.lines]_vars

(* C18: a pass that reads the file as the previous pass left it sends     *)
(* requests for the unsynced entries only; an entry already synced is     *)
(* neither sent nor changed, and when every entry is synced the pass      *)
(* changes neither the file nor the remote.  An entry still unsynced is   *)
(* sent again, and a success adds it to the remote and marks it.          *)
C18_SecondPass ==
    [][sync.again =>
          /\ EntryStep =>
                LET record == sync.lines[sync.i]
                IN  IF record.synced
                    THEN /\ posts' = posts
                         /\ remote' = remote
                         /\ sync'.unsynced_lines[sync.i] = record
                         /\ sync'.uploaded_count = sync.uploaded_count
                    ELSE /\ posts'[record.barcode_data] =
                                posts[record.barcode_data] + 1
                         /\ remote' \in {remote, Append(remote, SyncBody(record))}
          /\ WriteStep =>
                /\ \A k \in DOMAIN sync.lines :
                       sync.lines[k].synced => backlog'[k] = sync.lines[k]
                /\ (\A k \in DOMAIN sync.lines : sync.lines[k].synced)
                       => backlog' = backlog]_vars

(* The second pass skipped a synced entry and sent the entry that had     *)
(* failed in the first, with success.                                     *)
C18_Witness ==
    /\ nSync = 2
    /\ sync.pc = "idle"
    /\ sync.again
    /\ Len(sync.lines) = 2
    /\ sync.lines[1].synced
    /\ ~sync.lines[2].synced
    /\ sync.answers = <<"none", "success">>
    /\ backlog[2].synced

(* The POSTs of a call, in the order they were issued.                    *)
Posts(c) == SelectSeq(up[c].reqs, LAMBDA r : r.kind = "POST")

(* C21: a call issues at most two POSTs; the second is issued exactly     *)
(* when the create was answered with HTTP 400 and holds barcode_data and  *)
(* device_port only; any other failure ends the call; the call reports    *)
(* success iff one of its POSTs was answered with success.                *)
C21_RetryOnceOn400 ==
    \A c \in Calls :
        /\ Len(Posts(c)) <= 2
        /\ Len(Posts(c)) = 2 =>
              /\ up[c].code = "400"
              /\ ~Posts(c)[1].ok
              /\ Posts(c)[2].body =
                     [barcode_data |-> up[c].clean,
                      device_port |-> up[c].device_port, fields |-> {}]
        /\ (up[c].code = "400" /\ up[c].pc \in {"save", "done"})
              => Len(Posts(c)) = 2
        /\ up[c].code = "fail" =>
              Len(Posts(c)) = 1 /\ up[c].pc = "done" /\ ~up[c].result
        /\ (up[c].pc = "done" /\ Posts(c) # <<>>)
              => (up[c].result <=> \E k \in DOMAIN Posts(c) : Posts(c)[k].ok)

C21_Witness ==
    \E c \in Calls :
        /\ up[c].pc = "done"
        /\ up[c].result
        /\ up[c].code = "400"
        /\ Len(Posts(c)) = 2
        /\ Posts(c)[2].ok
        /\ Posts(c)[1].body.fields = {"status_3_cleaned", "status_3_time"}
        /\ Posts(c)[2].body.fields = {}

(* C23: a sync request that succeeds has the remote effect of an upload   *)
(* of the entry: the status pair is set on the record found for the       *)
(* barcode, or a record with the status pair is created when none exists. *)
C23_SyncLikeUpload ==
    [][(EntryStep /\ sync'.answers[sync.i] = "success"
          /\ sync.lines[sync.i].status # NoStatus) =>
          LET record == sync.lines[sync.i]
              id == FirstMatch(record.barcode_data)
          IN  IF id # NoRecord
              THEN /\ Len(remote') = Len(remote)
                   /\ StatusFields(record.status) \subseteq remote'[id].fields
              ELSE remote' = Append(remote,
                                    Row(record.barcode_data, record.device_port,
                                        StatusFields(record.status)))]_vars

(* C25: the rewrite of a pass that confirmed an entry leaves, of the      *)
(* entries the pass read, exactly those it did not confirm.               *)
C25_ConfirmedRemoved ==
    [][(WriteStep /\ sync.uploaded_count > 0) =>
          backlog' = SelectSeq(sync.unsynced_lines,
                               LAMBDA record : ~record.synced)]_vars

(* The position in the date file of the entry a call saved, whatever a   *)
(* later pass made of its synced flag.                                    *)
SavedAt(c) ==
    {i \in DOMAIN backlog :
        [backlog[i] EXCEPT !.synced = FALSE] =
            LocalEntry(up[c].barcode_data, up[c].device_port)}

(* C19: of two scans of one device with different payloads, both saved to *)
(* the date file, the entry of the scan that arrived first (whose upload  *)
(* was begun first) precedes the entry of the other.                      *)
C19_ArrivalOrder ==
    \A c1, c2 \in Calls :
        (/\ c1 < c2
         /\ up[c1].device_port = up[c2].device_port
         /\ up[c1].barcode_data # up[c2].barcode_data
         /\ up[c1].savedLocal /\ up[c2].savedLocal
         /\ Len(backlog) = 2)
            => \E i \in SavedAt(c1), j \in SavedAt(c2) : i < j

--------------------------------------------------------------------------
(* The program is stopped and started with another configuration: the    *)
(* environment is read once, in DatabaseManagerHTTP.__init__ (lines       *)
(* 33-57), and the date files stay.  Followed for one port and for a      *)
(* payload without prefix next to one with a prefix.                      *)
Reconfigure(new_config) ==
    /\ new_config \in Configs
    /\ new_config # config
    /\ \A c \in Calls : up[c].pc \in {"unborn", "done"}
    /\ sync.pc = "idle"
    /\ config' = new_config
    /\ UNCHANGED <<remote, backlog, up, nUploads, sync, nSync, posts>>
    /\ UNCHANGED nonSyncVars

ReconfigPayloads == {LOT99, Prefixed("2", LOT55)}

ReconfigNext ==
    \/ \E c \in Calls, p \in ReconfigPayloads : UploadBegin(c, p, "COM3")
    \/ \E c \in Calls, ok \in BOOLEAN : GetExisting(c, ok)
    \/ \E c \in Calls, ok \in BOOLEAN : UpdateExisting(c, ok)
    \/ \E c \in Calls, answer \in {"201", "400", "fail"} : CreateNew(c, answer)
    \/ \E c \in Calls, ok \in BOOLEAN : CreateBasic(c, ok)
    \/ \E c \in Calls : SaveAfterUpload(c)
    \/ \E c \in Calls : SaveOffline(c)
    \/ SyncRead
    \/ \E ok \in BOOLEAN : SyncEntry(ok)
    \/ SyncWrite
    \/ \E new_config \in Configs : Reconfigure(new_config)

SpecReconfig == SyncInit /\ [][ReconfigNext]_vars

(* C20: no POST and no PATCH is ever issued for the payload LOT-99, which *)
(* has no status prefix: not by an upload, not by a sync pass.            *)
C20_NoRemoteWrite ==
    /\ posts[LOT99] = 0
    /\ \A i \in DOMAIN remote : remote[i].barcode_data # LOT99
    /\ \A c \in Calls :
          up[c].barcode_data = LOT99 =>
              \A k \in DOMAIN up[c].reqs : up[c].reqs[k].kind = "GET"

--------------------------------------------------------------------------
(* ScannerDevice.is_duplicate_scan: the per-device 5 second window.       *)
duplicate_window == 5

(* A variant that also deletes the entries exactly as old as the window.  *)
ExpiredAtWindow(timestamp, current_time) ==
    timestamp # NoTime /\ current_time - timestamp >= duplicate_window

(* Lines 110-116: the entries older than the window are deleted.          *)
Expired(timestamp, current_time) ==
    timestamp # NoTime /\ current_time - timestamp > duplicate_window

Purged(scans, current_time) ==
    [p \in DOMAIN scans |->
        IF Expired(scans[p], current_time) THEN NoTime ELSE scans[p]]

(* A variant of the window check that never reports a duplicate.          *)
NeverDuplicate(scans, data, current_time) == FALSE

(* Line 119: data in self.recent_scans, after the purge.                  *)
is_duplicate_scan(scans, data, current_time) ==
    Purged(scans, current_time)[data] # NoTime

(* recent_scans after the call: a hit leaves the entry as it is, a miss   *)
(* records the scan (line 123).                                           *)
AfterDuplicateCheck(scans, data, current_time) ==
    IF is_duplicate_scan(scans, data, current_time)
    THEN Purged(scans, current_time)
    ELSE [Purged(scans, current_time) EXCEPT ![data] = current_time]

(* The history of one scan: whether the same payload had passed the       *)
(* window check on this device at most 5 seconds before it, whether the   *)
(* payload was in the daily set when it came, and what became of it.      *)
ScanRecord(data, prevPass, inDaily, verdict) ==
    [data |-> data,
     inWindow |-> prevPass # NoTime /\ now - prevPass <= duplicate_window,
     inDaily |-> inDaily, verdict |-> verdict, uploaded |-> FALSE]

(* A variant in which the scan worker takes the next line only when the   *)
(* uploads it started have been answered.                                 *)
WorkerFreeAfterUploads(d) ==
    /\ worker[d].pc = "idle"
    /\ \A k \in DOMAIN uploadThreads :
          uploadThreads[k].device = d => uploadThreads[k].pc = "done"

(* scan_worker, line 889: the worker hands over the next line when        *)
(* process_scanned_data has returned; upload_to_database returns after    *)
(* Thread.start() (line 957), no thread is joined.                        *)
WorkerFree(d) == worker[d].pc = "idle"

(* process_scanned_data, lines 898-903: the scan worker of device d hands *)
(* a framed line to the window check; a hit is logged and dropped.        *)
ProcessScannedData(d, data) ==
    /\ WorkerFree(d)
    /\ nScans < MaxScans
    /\ nScans' = nScans + 1
    /\ recent_scans' = [recent_scans EXCEPT
                           ![d] = AfterDuplicateCheck(@, data, now)]
    /\ IF is_duplicate_scan(recent_scans[d], data, now)
       THEN /\ lastScan' = [lastScan EXCEPT ![d] =
                   ScanRecord(data, lastPass[d][data],
                              data \in today_scanned_data, "DuplicateWindow")]
            /\ UNCHANGED <<worker, lastPass, passed>>
       ELSE /\ lastScan' = [lastScan EXCEPT ![d] =
                   ScanRecord(data, lastPass[d][data],
                              data \in today_scanned_data, "pending")]
            /\ lastPass' = [lastPass EXCEPT ![d][data] = now]
            /\ passed' = [passed EXCEPT ![d] = @ + 1]
            /\ worker' = [worker EXCEPT ![d] =
                   [WorkerIdle EXCEPT !.pc = "daily", !.data = data]]
    /\ UNCHANGED <<scan_count, total_scan_count, today_scanned_data, cacheFile,
                   nRestarts, accepted, now>>
    /\ UNCHANGED nonScanVars

(* Line 906: data in self.today_scanned_data.                             *)
CheckDaily(d) ==
    /\ worker[d].pc = "daily"
    /\ IF worker[d].data \in today_scanned_data
       THEN /\ worker' = [worker EXCEPT ![d].pc = "dup_count"]
            /\ lastScan' = [lastScan EXCEPT ![d].verdict = "DuplicateDaily"]
       ELSE /\ worker' = [worker EXCEPT ![d].pc = "add"]
            /\ lastScan' = [lastScan EXCEPT ![d].verdict = "New"]
    /\ UNCHANGED <<recent_scans, scan_count, total_scan_count, today_scanned_data,
                   cacheFile, nScans, nRestarts, lastPass, passed, accepted, now>>
    /\ UNCHANGED nonScanVars

(* Line 918: self.today_scanned_data.add(data).                           *)
AddToday(d) ==
    /\ worker[d].pc = "add"
    /\ today_scanned_data' = today_scanned_data \cup {worker[d].data}
    /\ worker' = [worker EXCEPT ![d].pc = "save_open"]
    /\ UNCHANGED <<recent_scans, scan_count, total_scan_count, cacheFile, nScans,
                   nRestarts, lastScan, lastPass, passed, accepted, now>>
    /\ UNCHANGED nonScanVars

(* save_today_scanned_data, line 1198: open(..., 'w') truncates the file. *)
SaveOpen(d) ==
    /\ worker[d].pc = "save_open"
    /\ cacheFile' = [state |-> "empty", data |-> {}]
    /\ worker' = [worker EXCEPT ![d].pc = "save_dump"]
    /\ UNCHANGED <<recent_scans, scan_count, total_scan_count, today_scanned_data,
                   nScans, nRestarts, lastScan, lastPass, passed, accepted, now>>
    /\ UNCHANGED nonScanVars

(* Line 1199: json.dump(list(self.today_scanned_data), f) fills the       *)
(* buffer of the file object with the set as it is now.                   *)
SaveDump(d) ==
    /\ worker[d].pc = "save_dump"
    /\ worker' = [worker EXCEPT ![d].pc = "save_close",
                                ![d].dump = today_scanned_data]
    /\ UNCHANGED <<recent_scans, scan_count, total_scan_count, today_scanned_data,
                   cacheFile, nScans, nRestarts, lastScan, lastPass, passed,
                   accepted, now>>
    /\ UNCHANGED nonScanVars

(* The file after a writer that opened it at offset 0 flushes `dump`: the *)
(* text replaces what is there if it is at least as long, and otherwise   *)
(* leaves the tail of the longer text behind it.                          *)
Flushed(file, dump) ==
    IF file.data \subseteq dump
    THEN [state |-> "json", data |-> dump]
    ELSE [state |-> "garbage", data |-> file.data]

(* The end of the with block: the buffer is written and the file closed.  *)
SaveClose(d) ==
    /\ worker[d].pc = "save_close"
    /\ cacheFile' = Flushed(cacheFile, worker[d].dump)
    /\ worker' = [worker EXCEPT ![d].pc = "count", ![d].dump = {}]
    /\ UNCHANGED <<recent_scans, scan_count, total_scan_count, today_scanned_data,
                   nScans, nRestarts, lastScan, lastPass, passed, accepted, now>>
    /\ UNCHANGED nonScanVars

(* Lines 911-913 and 921-923: device.scan_count += 1, and the read of     *)
(* self.total_scan_count += 1.                                            *)
CountScan(d) ==
    /\ worker[d].pc \in {"count", "dup_count"}
    /\ scan_count' = [scan_count EXCEPT ![d] = @ + 1]
    /\ worker' = [worker EXCEPT
                     ![d].pc = IF @ = "count" THEN "total" ELSE "dup_total",
                     ![d].tmp = total_scan_count]
    /\ UNCHANGED <<recent_scans, total_scan_count, today_scanned_data, cacheFile,
                   nScans, nRestarts, lastScan, lastPass, passed, accepted, now>>
    /\ UNCHANGED nonScanVars

(* A variant in which the duplicate of the day is uploaded as well.        *)
StartsUploadAlways(pc) == pc \in {"total", "dup_total"}

(* Whether process_scanned_data goes on to upload_to_database after the   *)
(* counters: the duplicate of the day returns at line 915.                *)
StartsUpload(pc) == pc = "total"

(* The write of self.total_scan_count += 1, and on the New path lines     *)
(* 929-930, upload_to_database: the upload thread is started.             *)
CountTotalScan(d) ==
    /\ worker[d].pc \in {"total", "dup_total"}
    /\ total_scan_count' = worker[d].tmp + 1
    /\ IF StartsUpload(worker[d].pc)
       THEN /\ lastScan' = [lastScan EXCEPT ![d].uploaded = TRUE]
            /\ accepted' = accepted \cup {worker[d].data}
       ELSE UNCHANGED <<lastScan, accepted>>
    /\ worker' = [worker EXCEPT ![d] = WorkerIdle]
    /\ UNCHANGED <<recent_scans, scan_count, today_scanned_data, cacheFile,
                   nScans, nRestarts, lastPass, passed, now>>

(* The same, the upload threads not followed.                             *)
CountTotal(d) == CountTotalScan(d) /\ UNCHANGED nonScanVars

(* load_today_scanned_data: the set is read from the file if it exists    *)
(* and parses, and is empty otherwise.                                    *)
load_today_scanned_data(file) ==
    IF file.state = "json" THEN file.data ELSE {}

(* The process stops at any point and is started again on the same date:  *)
(* __init__ builds new devices and counters and loads the cache file.     *)
Restart ==
    /\ nRestarts < MaxRestarts
    /\ nRestarts' = nRestarts + 1
    /\ recent_scans' = [d \in Devices |-> [p \in ScanPayloads |-> NoTime]]
    /\ scan_count' = [d \in Devices |-> 0]
    /\ total_scan_count' = 0
    /\ today_scanned_data' = load_today_scanned_data(cacheFile)
    /\ worker' = [d \in Devices |-> WorkerIdle]
    /\ lastScan' = [d \in Devices |-> NoScan]
    /\ lastPass' = [d \in Devices |-> [p \in ScanPayloads |-> NoTime]]
    /\ passed' = [d \in Devices |-> 0]
    /\ UNCHANGED <<cacheFile, nScans, accepted, now>>
    /\ UNCHANGED nonScanVars

Tick ==
    /\ now < MaxTime
    /\ nScans < MaxScans
    /\ now' = now + 1
    /\ UNCHANGED scanVars
    /\ UNCHANGED nonScanVars

SyncQuiet ==
    /\ config = [api_url |-> TRUE, database_enabled |-> TRUE,
                 local_backup_enabled |-> TRUE, auto_sync_enabled |-> TRUE]
    /\ remote = <<>>
    /\ backlog = <<>>
    /\ up = [c \in Calls |-> NoCall]
    /\ nUploads = 0
    /\ sync = SyncIdle
    /\ nSync = 0
    /\ posts = [b \in Barcodes |-> 0]

ScanInit ==
    now = 0 /\ ScanQuiet /\ SyncQuiet /\ ReconnQuiet /\ RegQuiet /\ ParseQuiet
    /\ OtherQuiet

ScanNext ==
    \/ \E d \in Devices, data \in ScanPayloads : ProcessScannedData(d, data)
    \/ \E d \in Devices : CheckDaily(d)
    \/ \E d \in Devices : AddToday(d)
    \/ \E d \in Devices : SaveOpen(d)
    \/ \E d \in Devices : SaveDump(d)
    \/ \E d \in Devices : SaveClose(d)
    \/ \E d \in Devices : CountScan(d)
    \/ \E d \in Devices : CountTotal(d)
    \/ Restart
    \/ Tick

SpecScan == ScanInit /\ [][ScanNext]_vars

--------------------------------------------------------------------------
(* Claims about the two dedup tiers and the daily cache (SpecScan).       *)

(* The worker of d is past the window check and before its increment of   *)
(* device.scan_count.                                                     *)
BeforeCount(d) ==
    worker[d].pc \in {"daily", "add", "save_open", "save_dump", "save_close",
                      "count", "dup_count"}

Scanned(d) == lastScan[d].verdict # "none"

(* C5: a scan of b on a device is a DuplicateWindow exactly when b passed *)
(* the window check on that device at most 5 seconds before it (so a hit  *)
(* does not renew the entry), and the hits are not counted: scan_count is *)
(* the number of scans that passed the window check.                      *)
C5_WindowDedup ==
    \A d \in Devices :
        /\ Scanned(d) =>
              (lastScan[d].verdict = "DuplicateWindow" <=> lastScan[d].inWindow)
        /\ scan_count[d] = passed[d] - (IF BeforeCount(d) THEN 1 ELSE 0)

C5_Witness ==
    \E d \in Devices :
        /\ lastScan[d].verdict = "DuplicateWindow"
        /\ lastScan[d].inWindow
        /\ scan_count[d] = 1
        /\ recent_scans[d][lastScan[d].data] < now

C7_RestartKeepsDailySet ==
    \A b \in accepted : b \in today_scanned_data

(* The worker of d is inside the with block of save_today_scanned_data:   *)
(* it has opened the cache file for writing and not yet closed it.        *)
WritingCache(d) == worker[d].pc \in {"save_dump", "save_close"}

(* C30: at most one thread at a time is inside a write of the cache file  *)
(* of the daily set.                                                      *)
C30_WritersSerialized ==
    \A d, e \in Devices : (WritingCache(d) /\ WritingCache(e)) => d = e

(* C34: of the device workers that process the same payload, at most one  *)
(* classifies it New.                                                     *)
C34_OneNewPerPayload ==
    \A d, e \in Devices :
        (/\ lastScan[d].verdict = "New"
         /\ lastScan[e].verdict = "New"
         /\ lastScan[d].data = lastScan[e].data) => d = e

(* No worker is inside process_scanned_data.                              *)
AllWorkersIdle == \A d \in Devices : worker[d].pc = "idle"

(* C39: when no scan is being processed, total_scan_count is the sum of   *)
(* the devices' scan_count and the number of scans that passed the window *)
(* check.                                                                 *)
C39_CountersExact ==
    AllWorkersIdle =>
        /\ total_scan_count = scan_count[1] + scan_count[2]
        /\ total_scan_count = passed[1] + passed[2]

--------------------------------------------------------------------------
(* One device and the payload LOT-99, scanned at time 0 and a second time *)
(* 2 or 10 seconds later.                                                 *)
PairScan ==
    /\ \/ nScans = 0 /\ now = 0
       \/ nScans = 1 /\ now \in {2, 10}
    /\ ProcessScannedData(1, LOT99)

PairTick ==
    /\ now < MaxPairTime
    /\ now' = now + 1
    /\ UNCHANGED scanVars
    /\ UNCHANGED nonScanVars

PairNext ==
    \/ PairScan
    \/ CheckDaily(1)
    \/ AddToday(1)
    \/ SaveOpen(1)
    \/ SaveDump(1)
    \/ SaveClose(1)
    \/ CountScan(1)
    \/ CountTotal(1)
    \/ PairTick

SpecPair == ScanInit /\ [][PairNext]_vars

SecondProcessed == nScans = 2 /\ worker[1].pc = "idle"

(* C12, as stated: the second scan is a DuplicateWindow 2 seconds after   *)
(* the first, and 10 seconds after it is New and uploaded.                *)
C12_AsStated ==
    SecondProcessed =>
        IF lastScan[1].inWindow
        THEN lastScan[1].verdict = "DuplicateWindow"
        ELSE lastScan[1].verdict = "New" /\ lastScan[1].uploaded

(* C12, amended: the first scan is New and starts an upload; the second   *)
(* is a DuplicateWindow 2 seconds after it (not counted), and 10 seconds  *)
(* after it is a DuplicateDaily: counted, and no second upload started.   *)
C12_SecondScan ==
    /\ (nScans = 1 /\ worker[1].pc = "idle") =>
          /\ lastScan[1].verdict = "New"
          /\ lastScan[1].uploaded
          /\ scan_count[1] = 1
    /\ SecondProcessed =>
          /\ accepted = {LOT99}
          /\ ~lastScan[1].uploaded
          /\ IF lastScan[1].inWindow
             THEN lastScan[1].verdict = "DuplicateWindow" /\ scan_count[1] = 1
             ELSE lastScan[1].verdict = "DuplicateDaily" /\ scan_count[1] = 2

C12_Witness ==
    /\ SecondProcessed
    /\ now = 10
    /\ recent_scans[1][LOT99] = 10
    /\ lastScan[1].verdict = "DuplicateDaily"

--------------------------------------------------------------------------
(* The connection of one device and its automatic reconnect.  One         *)
(* reconnect thread is followed at a time: a failed attempt ends its      *)
(* thread and starts the next one (line 1028).                            *)

(* force_disconnect_device, lines 771-823: the scan worker is told to     *)
(* stop and joined, the handle is closed and the state reset.             *)
force_disconnect_device(dev) ==
    [dev EXCEPT !.is_scanning = FALSE,
                !.serial_connection = "None",
                !.is_connected = FALSE,
                !.reconnect_attempts = 0,
                !.scan_thread = "None"]

(* Lines 689-696, 1012-1019: the port is open, the scan worker started.   *)
Opened(dev) ==
    [dev EXCEPT !.serial_connection = "open",
                !.is_connected = TRUE,
                !.reconnect_attempts = 0,
                !.is_scanning = TRUE,
                !.scan_thread = "alive"]

(* connect_device: the operator connects the device; the open succeeds    *)
(* (at once or at the retry), or fails with a connection error, which     *)
(* starts the reconnect thread (line 742), or fails otherwise.            *)
ConnectSteps(result) ==
    /\ reconn.pc = "none"
    /\ ~device.is_connected
    /\ nErrors < MaxErrors
    /\ result \in {"ok", "connection_error", "other_error"}
    /\ device' = IF result = "ok" THEN Opened(force_disconnect_device(device))
                 ELSE force_disconnect_device(device)
    /\ reconn' = IF result = "connection_error"
                 THEN [pc |-> "start", wake |-> 0] ELSE reconn
    /\ reopens' = 0
    /\ UNCHANGED <<nErrors, callback, now>>

(* The same, the operator's commands not followed.                        *)
ConnectDevice(result) == ConnectSteps(result) /\ UNCHANGED nonReconnVars

(* scan_worker, lines 892-894: the read raises; the worker schedules the  *)
(* callback for the Tk thread and leaves its loop.                        *)
ScanWorkerError(kind) ==
    /\ device.is_scanning
    /\ device.serial_connection = "open"
    /\ device.scan_thread = "alive"
    /\ reconn.pc = "none"
    /\ callback.pc # "pending"
    /\ nErrors < MaxErrors
    /\ nErrors' = nErrors + 1
    /\ device' = [device EXCEPT !.scan_thread = "dead"]
    /\ callback' = [pc |-> "pending", kind |-> kind]
    /\ UNCHANGED <<reconn, reopens, now>>
    /\ UNCHANGED nonReconnVars

(* handle_scan_error, lines 961-983, for a message of the given class.    *)
handle_scan_error(dev, kind) ==
    IF kind = "fatal"
    THEN [dev EXCEPT !.is_scanning = FALSE, !.is_connected = FALSE]
    ELSE [dev EXCEPT !.is_scanning = FALSE]

(* The Tk thread runs the callback of line 893, lambda: ...str(e).  The   *)
(* name e is unbound when the worker leaves its except block, which it    *)
(* does without waiting for the callback: the callback reads e before     *)
(* that (e_bound) and handle_scan_error runs, or after it, and the        *)
(* callback ends with a NameError.                                        *)
HandleScanError(e_bound) ==
    /\ callback.pc = "pending"
    /\ IF e_bound
       THEN /\ device' = handle_scan_error(device, callback.kind)
            /\ reconn' = IF callback.kind = "fatal"
                         THEN [pc |-> "start", wake |-> 0] ELSE reconn
            /\ callback' = [callback EXCEPT !.pc = "handled"]
       ELSE /\ callback' = [callback EXCEPT !.pc = "NameError"]
            /\ UNCHANGED <<device, reconn>>
    /\ reopens' = IF e_bound /\ callback.kind = "fatal" THEN 0 ELSE reopens
    /\ UNCHANGED <<nErrors, now>>
    /\ UNCHANGED nonReconnVars

(* auto_reconnect_device, line 990: the 5 second rate limit.              *)
RateLimited(dev, current_time) ==
    dev.last_error_time # NoTime /\ current_time - dev.last_error_time < 5

(* auto_reconnect_device, lines 987-1003: the rate limit, the attempt     *)
(* counter and its cap, and the start of the backoff sleep.               *)
ReconnectBegin ==
    /\ reconn.pc = "start"
    /\ IF RateLimited(device, now)
       THEN /\ reconn' = NoThread
            /\ UNCHANGED device
       ELSE /\ device' = [device EXCEPT !.last_error_time = now,
                                        !.reconnect_attempts = @ + 1]
            /\ reconn' = IF device.reconnect_attempts + 1 > max_reconnect_attempts
                         THEN NoThread
                         ELSE [pc |-> "backoff",
                               wake |-> now + 2 * (device.reconnect_attempts + 1)]
    /\ UNCHANGED <<nErrors, reopens, callback, now>>
    /\ UNCHANGED nonReconnVars

(* Lines 1003-1008: after the backoff the session is force-closed, and    *)
(* the thread sleeps one second more.                                     *)
ReconnectForceDisconnect ==
    /\ reconn.pc = "backoff"
    /\ now >= reconn.wake
    /\ device' = force_disconnect_device(device)
    /\ reconn' = [pc |-> "grace", wake |-> now + 1]
    /\ UNCHANGED <<nErrors, reopens, callback, now>>
    /\ UNCHANGED nonReconnVars

(* Lines 1010-1028: the reopen.  A success restarts the scan worker; a    *)
(* failure starts a further thread while attempts remain.                 *)
ReconnectOpen(ok) ==
    /\ reconn.pc = "grace"
    /\ now >= reconn.wake
    /\ reopens' = reopens + 1
    /\ device' = IF ok THEN Opened(device) ELSE device
    /\ reconn' = IF ~ok /\ device.reconnect_attempts < max_reconnect_attempts
                 THEN [pc |-> "start", wake |-> 0]
                 ELSE NoThread
    /\ UNCHANGED <<nErrors, callback, now>>
    /\ UNCHANGED nonReconnVars

(* Time passes, also while a port is being opened.                        *)
ReconnTick ==
    /\ now < MaxReconnTime
    /\ reconn.pc # "none"
    /\ now' = now + 1
    /\ UNCHANGED reconnVars
    /\ UNCHANGED nonReconnVars

ReconnInit ==
    now = 0 /\ ScanQuiet /\ SyncQuiet /\ ReconnQuiet /\ RegQuiet /\ ParseQuiet
    /\ OtherQuiet

ReconnNext ==
    \/ \E result \in {"ok", "connection_error", "other_error"} :
          ConnectDevice(result)
    \/ \E kind \in {"fatal", "transient"} : ScanWorkerError(kind)
    \/ \E e_bound \in BOOLEAN : HandleScanError(e_bound)
    \/ ReconnectBegin
    \/ ReconnectForceDisconnect
    \/ \E ok \in BOOLEAN : ReconnectOpen(ok)
    \/ ReconnTick

SpecReconn == ReconnInit /\ [][ReconnNext]_vars

(* The Tk main loop runs a scheduled callback, and the threads of         *)
(* auto_reconnect_device run.                                             *)
SpecReconnFair == SpecReconn /\ WF_vars(ReconnNext)

(* C15: after a scan worker hit a fatal I/O error the device is marked    *)
(* not connected and auto_reconnect_device is started for it.             *)
C15_FatalStartsReconnect ==
    [](callback = [pc |-> "pending", kind |-> "fatal"]
          => <>(~device.is_connected /\ reconn.pc = "start"))

(* C16: a transient I/O error leaves the device connected and scanning,   *)
(* with its scan worker reading on.                                       *)
C16_TransientLogOnly ==
    callback.kind = "transient" =>
        /\ device.is_connected
        /\ device.is_scanning
        /\ device.scan_thread = "alive"

(* C8: one fatal error leads to at most max_reconnect_attempts automatic  *)
(* reopen attempts of the port.                                           *)
C8_ReconnectCapped == reopens <= max_reconnect_attempts

(* No reconnect thread runs and no callback of a scan worker is pending.   *)
ReconnQuiescent == reconn.pc = "none" /\ callback.pc # "pending"

(* C36: in a quiescent state a device that is not connected has no open   *)
(* serial handle.                                                         *)
C36_NoHandleLeak ==
    (ReconnQuiescent /\ ~device.is_connected) =>
        device.serial_connection = "None"

(* All but the connection and the operator's commands.                    *)
nonOperVars == <<syncVars, scanVars, regVars, parseVars, otherVars>>

(* The operator connects the device.                                      *)
OperConnect(result) ==
    /\ ConnectSteps(result)
    /\ operatorOff' = FALSE
    /\ UNCHANGED nonOperVars

(* disconnect_device, lines 751-757: the scanning is stopped and the      *)
(* session force-closed.  A reconnect thread of the device is not looked  *)
(* at.                                                                    *)
DisconnectDevice ==
    /\ device' = force_disconnect_device(device)
    /\ operatorOff' = TRUE
    /\ UNCHANGED <<reconn, nErrors, reopens, callback, now>>
    /\ UNCHANGED nonOperVars

OperNext ==
    \/ \E result \in {"ok", "connection_error", "other_error"} :
          OperConnect(result)
    \/ DisconnectDevice
    \/ \E kind \in {"fatal", "transient"} : ScanWorkerError(kind)
    \/ \E e_bound \in BOOLEAN : HandleScanError(e_bound)
    \/ ReconnectBegin
    \/ ReconnectForceDisconnect
    \/ \E ok \in BOOLEAN : ReconnectOpen(ok)
    \/ ReconnTick

SpecOperator == ReconnInit /\ [][OperNext]_vars

(* C35: a device the operator disconnected has no open port and no scan   *)
(* worker until the operator connects it.                                 *)
C35_OperatorWins ==
    operatorOff =>
        /\ device.serial_connection # "open"
        /\ device.scan_thread # "alive"
        /\ ~device.is_connected

(* The reconnect thread sleeps its backoff: attempt number reopens + 1    *)
(* since the fatal error, begun at last_error_time.                       *)
InBackoff == reconn.pc = "backoff"

(* C28: before the k-th consecutive automatic attempt the supervisor      *)
(* sleeps 2*k seconds.                                                    *)
C28_BackoffGrows ==
    InBackoff => reconn.wake - device.last_error_time = 2 * (reopens + 1)

(* An automatic reopen has failed n times in a row and line 1028 has      *)
(* started a further thread.                                              *)
FailedAttempt(n) == reconn.pc = "start" /\ reopens = n

(* C29: after a failed automatic attempt with attempts left, a further    *)
(* reopen of the port is eventually attempted.                            *)
C29_FurtherAttempt ==
    \A n \in 1..(max_reconnect_attempts - 1) :
        [](FailedAttempt(n) => <>(reopens = n + 1))


--------------------------------------------------------------------------
(* The device registry: add_device, remove_selected_device, and a start   *)
(* of the program, which loads scanner_config.json.                       *)
RegPorts == {"COM3", "COM4", "COM5"}

(* A variant of the port test that finds no port in use.                  *)
PortInUseNever(port) == FALSE

(* add_device, lines 587-590: a registered device has the port.           *)
PortInUse(port) == \E id \in DOMAIN devices : devices[id] = port

(* The ports of the registry in the order of the dictionary, which is the *)
(* order of the ids.                                                      *)
RECURSIVE PortList(_, _)
PortList(ids, reg) ==
    IF ids = {} THEN <<>>
    ELSE <<reg[Min(ids)]>> \o PortList(ids \ {Min(ids)}, reg)

(* save_devices: 'ports' of the file written.                             *)
save_devices(reg) == PortList(DOMAIN reg, reg)

(* load_saved_devices, lines 1142-1155: the saved ports that are          *)
(* available get the ids 1, 2, ... in the order of the file.              *)
load_saved_devices(file, available_ports) ==
    IF file = NoConfigFile THEN <<>>
    ELSE SelectSeq(file, LAMBDA port : port \in available_ports)

AddDevice(port) ==
    /\ next_device_id <= MaxDeviceId
    /\ IF PortInUse(port)
       THEN /\ lastOp' = [op |-> "add", port |-> port, done |-> FALSE]
            /\ UNCHANGED <<devices, next_device_id, configFile>>
       ELSE /\ devices' = devices @@ (next_device_id :> port)
            /\ next_device_id' = next_device_id + 1
            /\ configFile' = save_devices(devices')
            /\ lastOp' = [op |-> "add", port |-> port, done |-> TRUE]
    /\ UNCHANGED nonRegVars

(* remove_selected_device, lines 616-631.                                 *)
RemoveDevice(device_id) ==
    /\ device_id \in DOMAIN devices
    /\ devices' = [id \in DOMAIN devices \ {device_id} |-> devices[id]]
    /\ configFile' = save_devices(devices')
    /\ lastOp' = [op |-> "remove", port |-> devices[device_id], done |-> TRUE]
    /\ UNCHANGED next_device_id
    /\ UNCHANGED nonRegVars

(* The program is started (again): __init__, lines 143-144 and 177.       *)
StartUp(available_ports) ==
    /\ devices' = load_saved_devices(configFile, available_ports)
    /\ next_device_id' = Len(devices') + 1
    /\ lastOp' = [op |-> "load", port |-> "", done |-> TRUE]
    /\ UNCHANGED configFile
    /\ UNCHANGED nonRegVars

RegInit ==
    now = 0 /\ ScanQuiet /\ SyncQuiet /\ ReconnQuiet /\ RegQuiet /\ ParseQuiet
    /\ OtherQuiet

RegNext ==
    \/ \E port \in RegPorts : AddDevice(port)
    \/ \E device_id \in 1..MaxDeviceId : RemoveDevice(device_id)
    \/ \E available_ports \in SUBSET RegPorts : StartUp(available_ports)

SpecRegistry == RegInit /\ [][RegNext]_vars

UniquePorts == \A i, j \in DOMAIN devices : devices[i] = devices[j] => i = j

Registered(port) == \E id \in DOMAIN devices : devices[id] = port

(* C13: no two registered devices have the same port, after any sequence  *)
(* of add, remove and start-up; an add for a port in use is rejected and  *)
(* leaves the registry, next_device_id and the file as they were, and an  *)
(* add for a free port registers it under the next id.                    *)
C13_UniquePorts ==
    /\ []UniquePorts
    /\ [][(lastOp'.op = "add" /\ lastOp' # lastOp) =>
            IF Registered(lastOp'.port)
            THEN /\ ~lastOp'.done
                 /\ UNCHANGED <<devices, next_device_id, configFile>>
            ELSE /\ lastOp'.done
                 /\ next_device_id' = next_device_id + 1
                 /\ DOMAIN devices' = DOMAIN devices \cup {next_device_id}
                 /\ devices'[next_device_id] = lastOp'.port]_vars

C13_Witness ==
    /\ lastOp.op = "add"
    /\ ~lastOp.done
    /\ Registered(lastOp.port)
    /\ devices = <<"COM4", "COM3">>
    /\ configFile = <<"COM4", "COM3">>
    /\ next_device_id = 3

--------------------------------------------------------------------------
(* The parser on its own: upload_scan_data, lines 119-126, for every      *)
(* payload of at most MaxLen characters.                                  *)
Chars == {"0", "1", "2", "3", "4", "5", "6", "@", "A"}

BoundedPayloads == UNION {[1..n -> Chars] : n \in 0..MaxLen}

NoLookup == <<"no lookup">>

(* line 119 *)
ParsePayload ==
    /\ parse_result = NotYet
    /\ parse_result' = _parse_barcode_status(payload)
    /\ UNCHANGED <<payload, lookup_key>>
    /\ UNCHANGED nonParseVars

(* lines 121-123: no status, the upload returns before any lookup.        *)
ReturnUnrecognized ==
    /\ parse_result # NotYet
    /\ lookup_key = NotYet
    /\ parse_result[2] = NoStatus
    /\ lookup_key' = NoLookup
    /\ UNCHANGED <<payload, parse_result>>
    /\ UNCHANGED nonParseVars

(* line 126: the lookup is made with clean_barcode_data.                  *)
LookupKey ==
    /\ parse_result # NotYet
    /\ lookup_key = NotYet
    /\ parse_result[2] # NoStatus
    /\ lookup_key' = parse_result[1]
    /\ UNCHANGED <<payload, parse_result>>
    /\ UNCHANGED nonParseVars

ParseInit ==
    /\ now = 0 /\ ScanQuiet /\ SyncQuiet /\ ReconnQuiet /\ RegQuiet
    /\ OtherQuiet
    /\ payload \in BoundedPayloads
    /\ parse_result = NotYet
    /\ lookup_key = NotYet

ParseNext == ParsePayload \/ ReturnUnrecognized \/ LookupKey

SpecParse == ParseInit /\ [][ParseNext]_vars

(* The status label of a digit, as the claim lists them.                  *)
LabelOf(d) ==
    CASE d = "0" -> "scheduled"
      [] d = "1" -> "cut"
      [] d = "2" -> "cleaned"
      [] d = "3" -> "stored"
      [] d = "4" -> "partial_out"
      [] d = "5" -> "shipped"

HasStatusPrefix(s) ==
    Len(s) >= 2 /\ s[1] \in {"0", "1", "2", "3", "4", "5"} /\ s[2] = "@"

(* C14: a payload d@rest with d in 0..5 is parsed to (rest, label of d),  *)
(* every other payload to (payload, no status); the remote lookup is made *)
(* with the stripped value, and never for a payload without a status.     *)
C14_ParseStatus ==
    /\ parse_result # NotYet =>
          IF HasStatusPrefix(payload)
          THEN parse_result = <<Tail(Tail(payload)), LabelOf(payload[1])>>
          ELSE parse_result = <<payload, NoStatus>>
    /\ lookup_key # NotYet =>
          IF HasStatusPrefix(payload)
          THEN lookup_key = Tail(Tail(payload))
          ELSE lookup_key = NoLookup

C14_Witness ==
    /\ payload = <<"5", "@", "A">>
    /\ parse_result = <<(<<"A">>), "shipped">>
    /\ lookup_key = <<"A">>

--------------------------------------------------------------------------
(* The daily cache over several days: scans of one device that all pass   *)
(* the window check, midnight, and a restart of the program.              *)

(* Line 906: the test against today_scanned_data.                         *)
DayVerdict(data) ==
    IF data \in today_scanned_data THEN "DuplicateDaily" ELSE "New"

(* save_today_scanned_data, lines 1195-1201: today_scanned_data is        *)
(* written to the file named today_cache_file.                            *)
save_today_scanned_data(files, data_set) ==
    [files EXCEPT ![today_cache_file] = [state |-> "written", data |-> data_set]]

(* process_scanned_data, lines 905-919, for a line that passed the        *)
(* window check.                                                          *)
DayScanLine(data) ==
    /\ dayScan' = [data |-> data, date |-> current_date,
                   verdict |-> DayVerdict(data),
                   firstToday |-> <<data, current_date>> \notin scannedOn]
    /\ scannedOn' = scannedOn \cup {<<data, current_date>>}
    /\ IF DayVerdict(data) = "New"
       THEN /\ today_scanned_data' = today_scanned_data \cup {data}
            /\ cacheFiles' = save_today_scanned_data(cacheFiles,
                                                     today_scanned_data')
       ELSE UNCHANGED <<today_scanned_data, cacheFiles>>
    /\ UNCHANGED <<current_date, today_cache_file>>
    /\ UNCHANGED nonDayVars

(* The local date changes while the program runs: no code looks at it.    *)
Midnight ==
    /\ current_date < MaxDays
    /\ current_date' = current_date + 1
    /\ UNCHANGED <<today_cache_file, cacheFiles, dayScan, scannedOn,
                   today_scanned_data>>
    /\ UNCHANGED nonDayVars

(* cleanup_expired_cache_files, lines 1233-1260: the files of other days  *)
(* are removed.                                                           *)
cleanup_expired_cache_files(files, date) ==
    [d \in Days |-> IF d # date THEN NoFile ELSE files[d]]

(* The program is closed (on_closing saves the set, line 1268) or killed, *)
(* and started again: __init__, lines 151-152, 180 and 183.               *)
DayRestart(closed) ==
    /\ LET files == IF closed
                    THEN save_today_scanned_data(cacheFiles, today_scanned_data)
                    ELSE cacheFiles
       IN /\ today_scanned_data' = IF files[current_date] = NoFile
                                   THEN {} ELSE files[current_date].data
          /\ cacheFiles' = cleanup_expired_cache_files(files, current_date)
    /\ today_cache_file' = current_date
    /\ UNCHANGED <<current_date, dayScan, scannedOn>>
    /\ UNCHANGED nonDayVars

DayInit ==
    now = 0 /\ ScanQuiet /\ SyncQuiet /\ ReconnQuiet /\ RegQuiet /\ ParseQuiet
    /\ OtherQuiet

DayNext ==
    \/ \E data \in ScanPayloads : DayScanLine(data)
    \/ Midnight
    \/ \E closed \in BOOLEAN : DayRestart(closed)

SpecDay == DayInit /\ [][DayNext]_vars

(* C22: the first scan of a payload on a day is New, whatever was scanned *)
(* the day before.                                                        *)
C22_NewEachDay == dayScan.firstToday => dayScan.verdict = "New"

(* One barcode scanned with two status prefixes, over several days.       *)
StatusPayloads == {Prefixed("1", LOT55), Prefixed("2", LOT55)}

StatusNext ==
    \/ \E data \in StatusPayloads : DayScanLine(data)
    \/ Midnight

SpecStatus == DayInit /\ [][StatusNext]_vars

(* The latest scan is a status change: the barcode was scanned earlier on *)
(* the day, and never on that day with this status prefix.                *)
StatusChange ==
    /\ dayScan.firstToday
    /\ \E q \in StatusPayloads \ {dayScan.data} :
          /\ _parse_barcode_status(q)[1] = _parse_barcode_status(dayScan.data)[1]
          /\ <<q, dayScan.date>> \in scannedOn

(* C40: a status change of a barcode already scanned that day is not      *)
(* suppressed by the daily set: it is New, and goes to the upload.        *)
C40_StatusChangeUploaded == StatusChange => dayScan.verdict = "New"

--------------------------------------------------------------------------
(* The scan workers together with the upload threads they start.  A       *)
(* thread stays in its request for as long as the remote takes.           *)

(* upload_to_database, lines 944-957: a daemon thread is started for the  *)
(* scan; it calls db.upload_barcode_scan.                                 *)
upload_to_database(threads, d, data) ==
    Append(threads, [device |-> d, data |-> data, pc |-> "request"])

(* Lines 921-930: the total counter, and on the New path the start of the *)
(* upload thread; process_scanned_data returns.                           *)
IngestCountTotal(d) ==
    /\ CountTotalScan(d)
    /\ uploadThreads' = IF StartsUpload(worker[d].pc)
                        THEN upload_to_database(uploadThreads, d, worker[d].data)
                        ELSE uploadThreads
    /\ UNCHANGED nonIngestVars

(* upload_worker, lines 946-955: db.upload_barcode_scan returns, the      *)
(* remote having answered, failed or timed out.                           *)
UploadAnswer(k) ==
    /\ k \in DOMAIN uploadThreads
    /\ uploadThreads[k].pc = "request"
    /\ uploadThreads' = [uploadThreads EXCEPT ![k].pc = "done"]
    /\ UNCHANGED <<scanVars, now>>
    /\ UNCHANGED nonIngestVars

IngestInit ==
    now = 0 /\ ScanQuiet /\ SyncQuiet /\ ReconnQuiet /\ RegQuiet /\ ParseQuiet
    /\ OtherQuiet

Ingests(d) == \E data \in ScanPayloads : ProcessScannedData(d, data)

WorkerStep(d) ==
    \/ CheckDaily(d)
    \/ AddToday(d)
    \/ SaveOpen(d)
    \/ SaveDump(d)
    \/ SaveClose(d)
    \/ CountScan(d)
    \/ IngestCountTotal(d)

IngestNext ==
    \/ \E d \in Devices : Ingests(d)
    \/ \E d \in Devices : WorkerStep(d)
    \/ \E k \in 1..MaxScans : UploadAnswer(k)

SpecIngest == IngestInit /\ [][IngestNext]_vars

Pending(d) ==
    {k \in DOMAIN uploadThreads :
        uploadThreads[k].device = d /\ uploadThreads[k].pc = "request"}

--------------------------------------------------------------------------
(* force_disconnect_device step by step, with the scan worker of the      *)
(* device and the errors of the serial driver.                            *)

(* Line 774: scan_thread.join(timeout=2.0), in seconds.                   *)
join_timeout == 2

Step(call, name) == [call EXCEPT !.log = Append(@, name)]

(* Lines 779-781: where the call goes on after the wait for the worker.   *)
AfterJoin(dev) ==
    CASE dev.serial_connection = "None" -> "reset"
      [] dev.serial_connection = "open" -> "cancel"
      [] OTHER -> "grace"

(* Line 770: device.is_scanning = False; lines 773-774: the join is       *)
(* entered if the scan thread is alive.                                   *)
CloseBegin ==
    /\ closing.pc \in {"idle", "done"}
    /\ nCloses < MaxCloses
    /\ device' = [device EXCEPT !.is_scanning = FALSE]
    /\ closing' = [pc |-> IF device.scan_thread = "alive"
                          THEN "join" ELSE AfterJoin(device),
                   waited |-> 0, log |-> <<"stop">>, start |-> device]
    /\ UNCHANGED nCloses
    /\ UNCHANGED nonCloseVars

(* scan_worker, line 862: the worker leaves its loop once the flag is     *)
(* cleared or the port is not open, unless it hangs in the driver.        *)
ScanWorkerExits ==
    /\ device.scan_thread = "alive"
    /\ ~device.is_scanning \/ device.serial_connection # "open"
    /\ device' = [device EXCEPT !.scan_thread = "dead"]
    /\ UNCHANGED closeVars
    /\ UNCHANGED nonCloseVars

(* One second passes inside the join.                                     *)
JoinTick ==
    /\ closing.pc = "join"
    /\ device.scan_thread = "alive"
    /\ closing.waited < join_timeout
    /\ closing' = [closing EXCEPT !.waited = @ + 1]
    /\ UNCHANGED <<device, nCloses>>
    /\ UNCHANGED nonCloseVars

(* A variant of the join that returns at once.                            *)
JoinDoneAtOnce(dev, waited) == TRUE

(* Line 774: the join returns when the worker has ended or the timeout    *)
(* has passed.                                                            *)
JoinDone(dev, waited) == dev.scan_thread # "alive" \/ waited = join_timeout

(* Lines 776-777: a worker still alive is logged, and the call goes on.   *)
JoinReturns ==
    /\ closing.pc = "join"
    /\ JoinDone(device, closing.waited)
    /\ closing' = [Step(closing, IF device.scan_thread = "alive"
                                 THEN "timeout" ELSE "joined")
                      EXCEPT !.pc = AfterJoin(device)]
    /\ UNCHANGED <<device, nCloses>>
    /\ UNCHANGED nonCloseVars

(* Lines 783-791: cancel_read and cancel_write; an AttributeError is      *)
(* passed over, any other error goes to the handler of line 813.          *)
CancelIO(outcome) ==
    /\ closing.pc = "cancel"
    /\ closing' = IF outcome = "error"
                  THEN [Step(Step(closing, "cancel"), "close_error")
                           EXCEPT !.pc = "drop"]
                  ELSE [Step(closing, "cancel") EXCEPT !.pc = "flush"]
    /\ UNCHANGED <<device, nCloses>>
    /\ UNCHANGED nonCloseVars

(* Lines 792-805: flush and reset of the buffers; on an AttributeError    *)
(* the newer method names are tried and any error of those is passed over.*)
FlushBuffers(outcome) ==
    /\ closing.pc = "flush"
    /\ closing' = IF outcome = "error"
                  THEN [Step(Step(closing, "flush"), "close_error")
                           EXCEPT !.pc = "drop"]
                  ELSE [Step(closing, "flush") EXCEPT !.pc = "close"]
    /\ UNCHANGED <<device, nCloses>>
    /\ UNCHANGED nonCloseVars

(* Line 807: serial_connection.close().                                   *)
CloseHandle(ok) ==
    /\ closing.pc = "close"
    /\ IF ok
       THEN /\ device' = [device EXCEPT !.serial_connection = "closed"]
            /\ closing' = [Step(closing, "close") EXCEPT !.pc = "grace"]
       ELSE /\ closing' = [Step(closing, "close_error") EXCEPT !.pc = "drop"]
            /\ UNCHANGED device
    /\ UNCHANGED nCloses
    /\ UNCHANGED nonCloseVars

(* Line 810: time.sleep(0.2).                                             *)
GraceSleep ==
    /\ closing.pc = "grace"
    /\ closing' = [Step(closing, "sleep") EXCEPT !.pc = "drop"]
    /\ UNCHANGED <<device, nCloses>>
    /\ UNCHANGED nonCloseVars

(* Line 816: device.serial_connection = None.                             *)
DropHandle ==
    /\ closing.pc = "drop"
    /\ device' = [device EXCEPT !.serial_connection = "None"]
    /\ closing' = [closing EXCEPT !.pc = "reset"]
    /\ UNCHANGED nCloses
    /\ UNCHANGED nonCloseVars

(* A variant of the reset that keeps the attempt counter.                 *)
ResetKeepingAttempts(dev) ==
    [dev EXCEPT !.is_connected = FALSE, !.scan_thread = "None"]

(* Lines 819-823: the state of the device is reset.                       *)
ResetState(dev) ==
    [dev EXCEPT !.is_connected = FALSE, !.reconnect_attempts = 0,
                !.scan_thread = "None"]

ResetDevice ==
    /\ closing.pc = "reset"
    /\ device' = ResetState(device)
    /\ closing' = [closing EXCEPT !.pc = "done"]
    /\ nCloses' = nCloses + 1
    /\ UNCHANGED nonCloseVars

(* The states a device can be in when force_disconnect_device is called:  *)
(* a scanning device has a scan thread (lines 845-846).                   *)
DeviceStates ==
    {dev \in [is_connected : BOOLEAN, is_scanning : BOOLEAN,
              serial_connection : {"None", "open", "closed"},
              scan_thread : {"None", "alive", "dead"},
              reconnect_attempts : 0..max_reconnect_attempts,
              last_error_time : {NoTime}] :
        dev.is_scanning => dev.scan_thread # "None"}

CloseInit ==
    /\ now = 0 /\ ScanQuiet /\ SyncQuiet /\ RegQuiet /\ ParseQuiet
    /\ DayQuiet /\ IngestQuiet /\ CloseQuiet /\ FrameQuiet /\ OpQuiet
    /\ device \in DeviceStates
    /\ reconn = NoThread
    /\ nErrors = 0
    /\ reopens = 0
    /\ callback = NoCallback

CloseStep ==
    \/ JoinTick
    \/ JoinReturns
    \/ \E outcome \in {"ok", "AttributeError", "error"} : CancelIO(outcome)
    \/ \E outcome \in {"ok", "AttributeError", "error"} : FlushBuffers(outcome)
    \/ \E ok \in BOOLEAN : CloseHandle(ok)
    \/ GraceSleep
    \/ DropHandle
    \/ ResetDevice

CloseNext == CloseBegin \/ ScanWorkerExits \/ CloseStep

SpecClose == CloseInit /\ [][CloseNext]_vars

(* The place of a step in the order the claim gives.                      *)
Rank(name) ==
    CASE name = "stop" -> 1
      [] name \in {"joined", "timeout"} -> 2
      [] name = "cancel" -> 3
      [] name = "flush" -> 4
      [] name = "close" -> 5
      [] name = "sleep" -> 6
      [] name = "close_error" -> 7

Did(name) == \E i \in DOMAIN closing.log : closing.log[i] = name

(* C26: the steps of a call are taken in the order stop flag, bounded     *)
(* wait, cancel, flush, close, grace sleep; the handle is closed only     *)
(* after the flag was cleared and the worker has ended or the two seconds *)
(* have passed; a worker that did not end in time is logged and the call  *)
(* completes; without a driver error on an open port every step is taken. *)
C26_CloseOrder ==
    /\ \A i, j \in DOMAIN closing.log :
          i < j => Rank(closing.log[i]) < Rank(closing.log[j])
    /\ closing.log # <<>> => closing.log[1] = "stop" /\ ~device.is_scanning
    /\ (Did("close") /\ closing.start.scan_thread = "alive")
          => Did("joined") \/ Did("timeout")
    /\ Did("timeout") => closing.waited = join_timeout
    /\ (Did("joined") /\ ~Did("timeout")) => device.scan_thread # "alive"
    /\ (closing.pc = "done" /\ closing.start.serial_connection = "open"
            /\ ~Did("close_error"))
          => Did("cancel") /\ Did("flush") /\ Did("close") /\ Did("sleep")
    /\ closing.pc \notin {"idle", "done"} => ENABLED CloseStep

(* The worker did not end within the wait: logged, and the port closed.   *)
C26_Witness ==
    /\ closing.pc = "done"
    /\ closing.log = <<"stop", "timeout", "cancel", "flush", "close", "sleep">>
    /\ closing.waited = join_timeout

(* C27: a call started in any device state completes, also the second of  *)
(* two calls in a row, and leaves the device with is_connected and        *)
(* is_scanning false, no handle, no scan thread and reconnect_attempts 0. *)
C27_CloseTotal ==
    /\ closing.pc \notin {"idle", "done"} => ENABLED CloseStep
    /\ closing.pc = "done" =>
          /\ ~device.is_connected
          /\ ~device.is_scanning
          /\ device.serial_connection = "None"
          /\ device.scan_thread = "None"
          /\ device.reconnect_attempts = 0
          /\ device.last_error_time = closing.start.last_error_time

(* The second of two calls in a row, made with no open handle.            *)
C27_Witness ==
    /\ nCloses = 2
    /\ closing.pc = "done"
    /\ closing.start.serial_connection = "None"
    /\ closing.start.scan_thread = "None"
    /\ closing.log = <<"stop">>

--------------------------------------------------------------------------
(* The scan worker of a device: its loop, the reads from the port and the *)
(* framing of the lines (scan_worker, lines 858-894).                     *)

CR == "\r"
LF == "\n"

WireChars == {"A", "B", " ", CR, LF}

(* str.strip() removes the white space at both ends of the line.          *)
Whitespace == {" ", CR, LF}

(* The first position of pat in s, or 0.                                  *)
IndexOf(s, pat) ==
    LET at == {i \in 1..(Len(s) - Len(pat) + 1) :
                  SubSeq(s, i, i + Len(pat) - 1) = pat}
    IN  IF at = {} THEN 0 ELSE CHOOSE i \in at : \A j \in at : i <= j

(* Line 878: '\n' in buffer or '\r' in buffer.                            *)
HasLineEnd(buffer) == IndexOf(buffer, <<LF>>) > 0 \/ IndexOf(buffer, <<CR>>) > 0

(* Lines 879-884: the separator the buffer is split on.                   *)
Separator(buffer) ==
    IF IndexOf(buffer, <<CR, LF>>) > 0 THEN <<CR, LF>>
    ELSE IF IndexOf(buffer, <<LF>>) > 0 THEN <<LF>>
    ELSE <<CR>>

(* buffer.split(sep, 1): the text before the first sep and the text after *)
(* it.                                                                    *)
split(buffer, sep) ==
    <<SubSeq(buffer, 1, IndexOf(buffer, sep) - 1),
      SubSeq(buffer, IndexOf(buffer, sep) + Len(sep), Len(buffer))>>

(* A variant that leaves the line as it is.                               *)
strip_nothing(line) == line

(* Line 886: line.strip().                                                *)
strip(line) ==
    LET ink == {i \in 1..Len(line) : line[i] \notin Whitespace}
    IN  IF ink = {} THEN <<>>
        ELSE SubSeq(line, CHOOSE i \in ink : \A j \in ink : i <= j,
                          CHOOSE i \in ink : \A j \in ink : i >= j)

(* A scan_worker thread as started (line 860): about to test its loop     *)
(* condition, with an empty buffer.                                       *)
NewScanThread == [pc |-> "poll", buffer |-> <<>>]

(* The thread object device.scan_thread refers to is the one started      *)
(* last; it is no longer alive once w has ended.                          *)
ThreadEnded(dev, w) ==
    IF w = Len(scanThreads) /\ dev.scan_thread = "alive"
    THEN [dev EXCEPT !.scan_thread = "dead"] ELSE dev

(* All but the device, the callback and the scan worker threads.          *)
nonWorkerVars == <<syncVars, now, scanVars, reconn, nErrors, reopens, regVars,
                   parseVars, dayVars, ingestVars, closeVars, opVars>>

(* A variant of the loop condition that does not look at the flag.        *)
LoopConditionPortOnly(dev) == dev.serial_connection = "open"

(* Line 862: device.is_scanning and device.serial_connection and          *)
(* device.serial_connection.is_open.                                      *)
LoopCondition(dev) == dev.is_scanning /\ dev.serial_connection = "open"

(* Line 862: the loop condition.  The worker goes on to read when the     *)
(* flag is set and the port is open, and ends otherwise.                  *)
WorkerPoll(w) ==
    /\ w \in DOMAIN scanThreads
    /\ scanThreads[w].pc = "poll"
    /\ IF LoopCondition(device)
       THEN /\ scanThreads' = [scanThreads EXCEPT ![w].pc = "read"]
            /\ UNCHANGED device
       ELSE /\ scanThreads' = [scanThreads EXCEPT ![w].pc = "exited"]
            /\ device' = ThreadEnded(device, w)
    /\ UNCHANGED <<wire, framed, callback>>
    /\ UNCHANGED nonWorkerVars

(* Lines 864-875, 890-894: n characters are waiting and are read into the *)
(* buffer; with none waiting the worker sleeps 10 ms and polls again.  On *)
(* a port that was closed meanwhile in_waiting raises: the callback is    *)
(* scheduled with a message that names no connection error, and the       *)
(* worker leaves its loop.                                                *)
WorkerRead(w, n) ==
    /\ w \in DOMAIN scanThreads
    /\ scanThreads[w].pc = "read"
    /\ IF device.serial_connection # "open"
       THEN /\ n = 0
            /\ scanThreads' = [scanThreads EXCEPT ![w].pc = "exited"]
            /\ device' = ThreadEnded(device, w)
            /\ callback' = [pc |-> "pending", kind |-> "transient"]
            /\ UNCHANGED wire
       ELSE /\ n \in 0..(Len(wire.stream) - wire.read)
            /\ scanThreads' = [scanThreads EXCEPT
                   ![w].pc = IF n = 0 THEN "poll" ELSE "frame",
                   ![w].buffer = @ \o SubSeq(wire.stream, wire.read + 1,
                                             wire.read + n)]
            /\ wire' = [wire EXCEPT !.read = @ + n]
            /\ UNCHANGED <<device, callback>>
    /\ UNCHANGED framed
    /\ UNCHANGED nonWorkerVars

(* Lines 878-890: while the buffer holds a line end, the text before the  *)
(* separator is taken off it, stripped and, if not empty, handed to       *)
(* process_scanned_data; then the worker sleeps 10 ms and polls again.    *)
WorkerFrame(w) ==
    /\ w \in DOMAIN scanThreads
    /\ scanThreads[w].pc = "frame"
    /\ IF HasLineEnd(scanThreads[w].buffer)
       THEN LET parts == split(scanThreads[w].buffer,
                               Separator(scanThreads[w].buffer))
                line == strip(parts[1])
            IN  /\ scanThreads' = [scanThreads EXCEPT ![w].buffer = parts[2]]
                /\ framed' = IF line # <<>>
                             THEN Append(framed, [thread |-> w, line |-> line])
                             ELSE framed
       ELSE /\ scanThreads' = [scanThreads EXCEPT ![w].pc = "poll"]
            /\ UNCHANGED framed
    /\ UNCHANGED <<wire, device, callback>>
    /\ UNCHANGED nonWorkerVars

(* A connected, scanning device (lines 689-696, 845-847) whose scanner    *)
(* sends any text of at most MaxStream characters.                        *)
MaxStream == 5

Streams == UNION {[1..n -> WireChars] : n \in 0..MaxStream}

FrameInit ==
    /\ now = 0 /\ ScanQuiet /\ SyncQuiet /\ RegQuiet /\ ParseQuiet
    /\ DayQuiet /\ IngestQuiet /\ CloseQuiet /\ OpQuiet
    /\ device = Opened(NewDevice)
    /\ reconn = NoThread /\ nErrors = 0 /\ reopens = 0 /\ callback = NoCallback
    /\ wire \in [stream : Streams, read : {0}]
    /\ scanThreads = <<NewScanThread>>
    /\ framed = <<>>

FrameNext ==
    \/ WorkerPoll(1)
    \/ \E n \in 0..MaxStream : WorkerRead(1, n)
    \/ WorkerFrame(1)

SpecFrame == FrameInit /\ [][FrameNext]_vars

--------------------------------------------------------------------------
(* Claims about the framing (SpecFrame).                                  *)

(* The characters of s that are not white space, in their order.          *)
Ink(s) == SelectSeq(s, LAMBDA c : c \notin Whitespace)

RECURSIVE Joined(_)
(* The lines handed over so far, one after the other.                     *)
Joined(lines) ==
    IF lines = <<>> THEN <<>> ELSE lines[1].line \o Joined(Tail(lines))

(* What has been read from the port.                                      *)
Consumed == SubSeq(wire.stream, 1, wire.read)

(* The text of s after its last line end character.                       *)
AfterLastLineEnd(s) ==
    LET ends == {i \in 1..Len(s) : s[i] \in {CR, LF}}
    IN  IF ends = {} THEN s
        ELSE SubSeq(s, (CHOOSE i \in ends : \A j \in ends : i >= j) + 1, Len(s))

(* C32: every line handed over is not empty and has no white space at its *)
(* ends; there are at most as many of them as line ends were read; the    *)
(* text read and the text handed over or buffered are the same, and once  *)
(* the buffer has been framed it holds exactly the text read after the    *)
(* last line end, which has not been handed over.                         *)
C32_Framing ==
    /\ \A k \in DOMAIN framed :
          /\ framed[k].line # <<>>
          /\ framed[k].line[1] \notin Whitespace
          /\ framed[k].line[Len(framed[k].line)] \notin Whitespace
    /\ Len(framed) <= Cardinality({i \in 1..wire.read : wire.stream[i] \in {CR, LF}})
    /\ Ink(Joined(framed)) \o Ink(scanThreads[1].buffer) = Ink(Consumed)
    /\ scanThreads[1].pc # "frame" =>
          scanThreads[1].buffer = AfterLastLineEnd(Consumed)

(* " A", CR, LF and "B" in two reads: the line A was handed over, B waits  *)
(* in the buffer for its line end.                                        *)
C32_Witness ==
    /\ wire.stream = <<" ", "A", CR, LF, "B">>
    /\ wire.read = 5
    /\ scanThreads[1].pc = "poll"
    /\ scanThreads[1].buffer = <<"B">>
    /\ framed = <<[thread |-> 1, line |-> <<"A">>]>>

RECURSIVE FrameAll(_)
(* The lines the framing hands over for a buffer read at once.            *)
FrameAll(buffer) ==
    IF ~HasLineEnd(buffer) THEN <<>>
    ELSE LET parts == split(buffer, Separator(buffer))
             line == strip(parts[1])
         IN  (IF line # <<>> THEN <<line>> ELSE <<>>) \o FrameAll(parts[2])

(* C33: once the whole text has been read and framed, the lines handed    *)
(* over are those of the text read at once, and none holds a CR or LF.    *)
C33_SplitIndependent ==
    (wire.read = Len(wire.stream) /\ scanThreads[1].pc # "frame") =>
        /\ [k \in DOMAIN framed |-> framed[k].line] = FrameAll(wire.stream)
        /\ \A k \in DOMAIN framed :
              \A i \in DOMAIN framed[k].line :
                  framed[k].line[i] \notin {CR, LF}

--------------------------------------------------------------------------
(* The scan workers of one device under the operator's commands: start    *)
(* and stop of the scanning, disconnect and connect.  The commands run on *)
(* the Tk thread, one at a time; the workers run beside them.             *)

MaxThreads == 2

(* The Tk thread is not inside force_disconnect_device.                   *)
TkFree == closing.pc \in {"idle", "done"}

(* All but the device and the scan worker threads.                        *)
nonStartVars == <<syncVars, now, scanVars, reconn, nErrors, reopens, callback,
                  regVars, parseVars, dayVars, ingestVars, closeVars, wire,
                  framed, opVars>>

(* start_device_scanning, lines 838-847: on a connected device that is    *)
(* not scanning the flag is set and a new scan_worker thread started.     *)
StartDeviceScanning ==
    /\ TkFree
    /\ device.is_connected
    /\ ~device.is_scanning
    /\ Len(scanThreads) < MaxThreads
    /\ device' = [device EXCEPT !.is_scanning = TRUE, !.scan_thread = "alive"]
    /\ scanThreads' = Append(scanThreads, NewScanThread)
    /\ UNCHANGED nonStartVars

(* stop_device_scanning, line 854: the flag is cleared.                   *)
StopDeviceScanning ==
    /\ TkFree
    /\ device.is_scanning
    /\ device' = [device EXCEPT !.is_scanning = FALSE]
    /\ UNCHANGED scanThreads
    /\ UNCHANGED nonStartVars

(* connect_device, lines 686-696, after its force_disconnect_device has   *)
(* returned: the port is opened and start_device_scanning called.         *)
OpenAndScan ==
    /\ closing.pc = "done"
    /\ ~device.is_connected
    /\ Len(scanThreads) < MaxThreads
    /\ device' = Opened(device)
    /\ scanThreads' = Append(scanThreads, NewScanThread)
    /\ UNCHANGED nonStartVars

(* A connected device with its scan worker, the scanner sending two       *)
(* lines.                                                                 *)
WorkerInit ==
    /\ now = 0 /\ ScanQuiet /\ SyncQuiet /\ RegQuiet /\ ParseQuiet
    /\ DayQuiet /\ IngestQuiet /\ CloseQuiet /\ OpQuiet
    /\ device = Opened(NewDevice)
    /\ reconn = NoThread /\ nErrors = 0 /\ reopens = 0 /\ callback = NoCallback
    /\ wire = [stream |-> <<"A", LF, "B", LF>>, read |-> 0]
    /\ scanThreads = <<NewScanThread>>
    /\ framed = <<>>

ScanThreadStep(w) ==
    \/ WorkerPoll(w)
    \/ \E n \in 0..Len(wire.stream) : WorkerRead(w, n)
    \/ WorkerFrame(w)

WorkerNext ==
    \/ \E w \in 1..MaxThreads : ScanThreadStep(w)
    \/ StartDeviceScanning
    \/ StopDeviceScanning
    \/ CloseBegin
    \/ CloseStep
    \/ OpenAndScan
    \/ \E e_bound \in BOOLEAN : HandleScanError(e_bound)

SpecWorker == WorkerInit /\ [][WorkerNext]_vars

(* The same with the scanning started and stopped only.                   *)
StopNext ==
    \/ \E w \in 1..MaxThreads : ScanThreadStep(w)
    \/ StartDeviceScanning
    \/ StopDeviceScanning

SpecStop == WorkerInit /\ [][StopNext]_vars

(* Every scan worker thread keeps running.                                *)
SpecStopFair ==
    SpecStop /\ \A w \in 1..MaxThreads : WF_vars(ScanThreadStep(w))

Ended(w) == w \in DOMAIN scanThreads => scanThreads[w].pc = "exited"

(* C31: if the flag stays cleared from some point on, every scan worker   *)
(* ends; a worker that polls with the flag cleared ends at that poll, and *)
(* a worker that has ended hands over no further line.                    *)
C31_CooperativeStop ==
    /\ \A w \in 1..MaxThreads : (<>[](~device.is_scanning)) => <>[]Ended(w)
    /\ [][\A w \in DOMAIN scanThreads :
            /\ (scanThreads[w].pc = "poll" /\ ~device.is_scanning
                  /\ scanThreads'[w] # scanThreads[w])
                 => scanThreads'[w].pc = "exited"
            /\ scanThreads[w].pc = "exited" =>
                  /\ scanThreads'[w] = scanThreads[w]
                  /\ \A k \in DOMAIN framed' \ DOMAIN framed :
                        framed'[k].thread # w]_vars

(* The scanning was stopped after the first line: the worker has ended,   *)
(* the second line was not read.                                          *)
C31_Witness ==
    /\ ~device.is_scanning
    /\ closing.pc = "idle"
    /\ scanThreads = <<[pc |-> "exited", buffer |-> <<>>]>>
    /\ wire.read = 2
    /\ framed = <<[thread |-> 1, line |-> <<"A">>]>>

(* C37: at most one scan worker of the device is alive.                   *)
C37_OneWorker ==
    Cardinality({w \in DOMAIN scanThreads : scanThreads[w].pc # "exited"}) <= 1

====
